---------------------------- MODULE Spec2Model ----------------------------
(***************************************************************************)
(* A model of the AudioSocket transport of asteramisk:                     *)
(* AudioSocketConnectionAsync (src/asteramisk/internal/                    *)
(* audiosocket_connection.py), one session over one TCP connection.        *)
(*                                                                         *)
(* Byte strings are sequences of numbers.  The socket is a byte stream     *)
(* towards the session (net_in) and a log of the sendall() calls the       *)
(* session makes (sock_out).  Every asyncio task is a process with a       *)
(* program counter naming the await it is suspended at; an action is the   *)
(* code that runs from one suspension to the next.                         *)
(***************************************************************************)
EXTENDS Integers, Sequences, FiniteSets, TLC

(***************************************************************************)
(* Bounds.  FrameLen stands for the 320 bytes of one 20 ms PCM frame,      *)
(* QueueCap for the capacity 500 of both queues and UuidLen for the 16     *)
(* bytes of a UUID: they are scaled down so that a queue fills up and a    *)
(* write spans several frames within a few steps.                          *)
(***************************************************************************)
FrameLen == 2
QueueCap == 2
UuidLen == 1
MaxFrames == 3
MaxWrites == 2
MaxHangups == 2
MaxCloses == 1
MaxRaises == 2
MaxConns == 2
MaxOns == 4
MaxRegs == 1
MaxClears == 1
MaxDrains == 1
MaxStops == 1
MaxSets == 2
MaxCreates == 2

\* message types (types_struct)
T_uuid == 1
T_audio == 16
T_silence == 2
T_dtmf == 3
T_hangup == 0
T_error == 255

Min(a, b) == IF a < b THEN a ELSE b

\* bytes(n): n zero bytes
Zeros(n) == [i \in 1..n |-> 0]

\* (n).to_bytes(2, 'big')
ToBytes2(n) == <<(n \div 256) % 256, n % 256>>

\* int.from_bytes(b, 'big') of a two-byte string
FromBytes2(b) == b[1] * 256 + b[2]

\* PCM_SIZE = (320).to_bytes(2, 'big')
PCM_SIZE == ToBytes2(FrameLen)

\* sock_recv(conn, 323): the most bytes one read returns
RecvMax == FrameLen + 3

\* data[a:b] of Python, 0-based and clipped to the string
Slice(s, a, b) == SubSeq(s, a + 1, Min(b, Len(s)))

\* _split_data(data): (type_byte, length, payload)
_split_data(data) ==
    IF Len(data) < 3
    THEN [type |-> T_hangup, length |-> 0, payload |-> Zeros(FrameLen)]
    ELSE [type |-> data[1],
          length |-> FromBytes2(SubSeq(data, 2, 3)),
          payload |-> SubSeq(data, 4, Len(data))]

\* what the PBX puts on the wire for one frame: type, length, payload
WireFrame(type, payload) == <<type>> \o ToBytes2(Len(payload)) \o payload

\* the frames the session builds for sendall()
AudioFrame(audio_data) == <<T_audio>> \o ToBytes2(Len(audio_data)) \o audio_data
SilenceFrame == <<T_audio>> \o PCM_SIZE \o Zeros(FrameLen)
HangupBytes == <<T_hangup, T_hangup, T_hangup>>

\* the payloads the PBX sends: the n-th frame carries a counter pattern
AudioPayload(n) == [i \in 1..FrameLen |-> 100 + (n - 1) * FrameLen + i]
UuidPayload == [i \in 1..UuidLen |-> 170 + i]
PbxKinds == {"uuid", "audio", "dtmf", "error", "hangup"}
PbxFrame(kind, n) ==
    CASE kind = "uuid" -> <<T_uuid, UuidPayload>>
      [] kind = "audio" -> <<T_audio, AudioPayload(n)>>
      [] kind = "dtmf" -> <<T_dtmf, <<53>> >>
      [] kind = "error" -> <<T_error, <<1>> >>
      [] OTHER -> <<T_hangup, <<>> >>

\* str(uuid.UUID(bytes=payload)): the hex digits of the bytes, or a ValueError
\* (modelled as the empty string) when the payload is not UuidLen bytes long
HexOf(b) == <<b \div 16, b % 16>>
RECURSIVE HexStr(_)
HexStr(s) == IF s = <<>> THEN <<>> ELSE HexOf(Head(s)) \o HexStr(Tail(s))
UuidValid(payload) == Len(payload) = UuidLen

RECURSIVE Flatten(_)
Flatten(ss) == IF ss = <<>> THEN <<>> ELSE Head(ss) \o Flatten(Tail(ss))

RECURSIVE IsSubseq(_, _)
IsSubseq(a, b) ==
    IF a = <<>> THEN TRUE
    ELSE IF b = <<>> THEN FALSE
    ELSE IF Head(a) = Head(b) THEN IsSubseq(Tail(a), Tail(b))
    ELSE IsSubseq(a, Tail(b))

VARIABLES
    net_in,         \* bytes sent by the PBX and not yet read by sock_recv
    peer,           \* "open", "closed" (the PBX closed its end), "reset"
    sock_open,      \* conn.close() has not been called
    sock_out,       \* the sendall() calls made on conn: [data, res]
    pbx_log,        \* history: the frames the PBX sent, <<type, payload>>
    connected,      \* self.connected
    uuid,           \* self._uuid (<<>> stands for None)
    rx_q,           \* self._rx_q
    tx_q,           \* self._tx_q
    tx_unfinished,  \* self._tx_q's count of unfinished tasks (join())
    tx_extra_data,  \* self._tx_extra_data
    lock,           \* self._lock: "free" or the task that holds it
    lock_wait,      \* the tasks waiting for self._lock, in order
    hangup_sent,    \* self.hangup_sent
    pc,             \* the _process task: the await it is suspended at
    reply,          \* _process: the frame being written back
    exc,            \* _process: how the loop was left ("none", "cancel", "error")
    cancel_req,     \* self._task.cancel() was called and not yet delivered
    proc_log,       \* history: the frames _process decoded, <<type, payload>>
    evicted,        \* history: the payloads dropped from a full rx_q
    wr,             \* the task calling write(): [st, rest]
    written,        \* history: the number of bytes passed to write() so far
    put_log,        \* history: the chunks put on tx_q, in order
    rd,             \* the task calling read(): "idle" or "get"
    read_log,       \* history: what read() returned, in order
    hg,             \* the task calling hangup(): "idle" or "hangup"
    cl,             \* the task calling close(): "idle", "drain" or "await"
    calls,          \* the calls made so far, per method; x: what they raised
    tx_task,        \* the _tx_resample task: the await it is suspended at
    rx_task,        \* the _rx_resample task: the await it is suspended at
    rs_cancel,      \* the resampling tasks cancelled and not yet told
    ratio,          \* rate / 8000 of set_resampling(rate, ...)
    to_in,          \* bytes in the stdin pipe of the to-asterisk converter
    to_out,         \* bytes in its stdout pipe
    from_in,        \* bytes in the stdin pipe of the from-asterisk converter
    from_out,       \* bytes in its stdout pipe
    tx_rest,        \* _tx_resample: the audio its put() still has to queue
    listener,       \* AudiosocketAsync: "none", "listening", "closed", "failed"
    bind_port,      \* the bind_port create() was given (0: none), -1 before
    port,           \* its port attribute (0: not set)
    backlog,        \* connections made to initial_sock and not yet accepted
    csock,          \* per inbound connection: "none", "backlog", "orphan",
                    \* "session" (a Session is bound to it)
    cuuid,          \* per inbound connection: the id its peer sent ("": none)
    l_loop,         \* the _listen_loop task: "none", "accept", "uuid", "ended"
    l_cur,          \* _listen_loop: audconn
    connections,    \* self.connections: the pairs <<stream id, connection>>
    acc,            \* per stream id, the accept() call: [st, obj], st "idle",
                    \* "poll" or "returned", obj the connection it returned
    _event_callbacks, \* self._event_callbacks: a dict, event name -> callback
    on_log,         \* history: the on() calls made, [event, callback, raised]
    fired,          \* history: the callback tasks _process created,
                    \* [event, callback, payload]
    dr,             \* the task calling drain_send_queue(): [st, mark, n], st
                    \* "idle", "join" or "woken", mark the number of chunks
                    \* put before the call, n the calls made
    dr_log,         \* history: the drain_send_queue() calls that returned:
                    \* [connected, waited, mark], connected as at the call
    clr,            \* the tasks calling clear_send_queue() ("tx") and
                    \* clear_receive_queue() ("rx"): [st, n]
    cleared,        \* history: the items each of them removed (of
                    \* clear_receive_queue() the first MaxFrames)
    wrs,            \* two tasks calling write() at the same time: [st, rest]
    putters,        \* those of them waiting in put() on a full tx_q, in order
    submitted,      \* history: the data of their write() calls, in call order
    sr,             \* the task calling stop_resampling(): [st, n], st "idle",
                    \* "stop_rx" or "stop_tx", n the calls made
    held,           \* history: the audio the stage held at each of these
                    \* calls, [to, from], as it would come out of the stage
    clear_mark,     \* history: the number of bytes passed to write() when
                    \* clear_send_queue() last returned with no write() in
                    \* progress (-1: it has not)
    orphans,        \* the resampling tasks that a later set_resampling() call
                    \* replaced while they were running: [n, tx, rx], n such
                    \* calls, tx and rx the tasks left behind per direction
    create_log      \* history: what AudiosocketAsync.create() returned when
                    \* it was called again: the state of the instance

sockvars == <<net_in, peer, sock_open, sock_out, pbx_log>>
sessvars == <<connected, uuid, rx_q, tx_q, tx_unfinished, tx_extra_data,
              lock, lock_wait, hangup_sent>>
loopvars == <<pc, reply, exc, cancel_req, proc_log, evicted>>
appvars == <<wr, written, put_log, rd, read_log, hg, cl, calls>>
rsvars == <<tx_task, rx_task, rs_cancel, ratio, to_in, to_out, from_in, from_out,
            tx_rest>>
lsvars == <<listener, bind_port, port, backlog, csock, cuuid, l_loop, l_cur,
            connections, acc>>
cbvars == <<_event_callbacks, on_log>>
qvars == <<dr, dr_log, clr, cleared>>
w2vars == <<wrs, putters, submitted>>
srvars == <<sr, held>>
auxvars == <<clear_mark, orphans, create_log>>
vars == <<sockvars, sessvars, loopvars, appvars, rsvars, lsvars, cbvars, fired, qvars, w2vars, srvars, auxvars>>

NoReply == [data |-> <<>>, fromq |-> FALSE]

\* __create__: the state of a session right after construction
Init ==
    /\ net_in = <<>>
    /\ peer = "open"
    /\ sock_open = TRUE
    /\ sock_out = <<>>
    /\ pbx_log = <<>>
    /\ connected = TRUE
    /\ uuid = <<>>
    /\ rx_q = <<>>
    /\ tx_q = <<>>
    /\ tx_unfinished = 0
    /\ tx_extra_data = <<>>
    /\ lock = "free"
    /\ lock_wait = <<>>
    /\ hangup_sent = FALSE
    /\ pc = "recv"
    /\ reply = NoReply
    /\ exc = "none"
    /\ cancel_req = FALSE
    /\ proc_log = <<>>
    /\ evicted = <<>>
    /\ wr = [st |-> "idle", rest |-> <<>>]
    /\ written = 0
    /\ put_log = <<>>
    /\ rd = "idle"
    /\ read_log = <<>>
    /\ hg = "idle"
    /\ cl = "idle"
    /\ calls = [w |-> 0, h |-> 0, c |-> 0, x |-> <<>>]
    /\ tx_task = "none"
    /\ rx_task = "none"
    /\ rs_cancel = {}
    /\ ratio = 1
    /\ to_in = <<>>
    /\ to_out = <<>>
    /\ from_in = <<>>
    /\ from_out = <<>>
    /\ tx_rest = <<>>
    /\ listener = "none"
    /\ bind_port = -1
    /\ port = 0
    /\ backlog = <<>>
    /\ csock = [c \in 1..MaxConns |-> "none"]
    /\ cuuid = [c \in 1..MaxConns |-> ""]
    /\ l_loop = "none"
    /\ l_cur = 0
    /\ connections = {}
    /\ acc = [id \in {"a", "b"} |-> [st |-> "idle", obj |-> 0]]
    /\ _event_callbacks = <<>>
    /\ on_log = <<>>
    /\ fired = <<>>
    /\ dr = [st |-> "idle", mark |-> 0, n |-> 0]
    /\ dr_log = <<>>
    /\ clr = [q \in {"tx", "rx"} |-> [st |-> "idle", n |-> 0]]
    /\ cleared = [q \in {"tx", "rx"} |-> <<>>]
    /\ wrs = [t \in {"A", "B"} |-> [st |-> "idle", rest |-> <<>>]]
    /\ putters = <<>>
    /\ submitted = <<>>
    /\ sr = [st |-> "idle", n |-> 0]
    /\ held = <<>>
    /\ clear_mark = -1
    /\ orphans = [n |-> 0, tx |-> 0, rx |-> 0]
    /\ create_log = <<>>

(***************************************************************************)
(* self._lock, an asyncio.Lock: acquire() takes a free lock at once and    *)
(* otherwise queues; release() hands the lock to the first waiter.         *)
(***************************************************************************)
Acq(l, w, t) == IF l = "free" THEN <<t, w>> ELSE <<l, Append(w, t)>>
Rel(l, w) == IF w = <<>> THEN <<"free", <<>> >> ELSE <<Head(w), Tail(w)>>
\* a task that held or awaited the lock leaves it (exception or cancellation)
Leave(l, w, t) ==
    IF l = t THEN Rel(l, w) ELSE <<l, SelectSeq(w, LAMBDA x : x # t)>>

IsAudio(f) == f[1] = T_audio
\* the payloads of the AUDIO frames the PBX sent, in order
PbxAudio == [i \in 1..Len(SelectSeq(pbx_log, IsAudio)) |->
                SelectSeq(pbx_log, IsAudio)[i][2]]

Terminal == {"done", "cancelled", "raised"}

(***************************************************************************)
(* The PBX end of the connection.                                          *)
(***************************************************************************)
PbxSendKind(kind) ==
    LET f == PbxFrame(kind, Len(PbxAudio) + 1) IN
    /\ peer = "open"
    /\ Len(pbx_log) < MaxFrames
    /\ net_in' = net_in \o WireFrame(f[1], f[2])
    /\ pbx_log' = Append(pbx_log, f)
    /\ UNCHANGED <<peer, sock_open, sock_out, sessvars, loopvars, appvars, rsvars,
                   lsvars, cbvars, fired, qvars, w2vars, srvars, auxvars>>

\* the PBX sends a frame of any type
PbxSend == \E kind \in PbxKinds : PbxSendKind(kind)

\* the PBX sends the next AUDIO frame of the call
PbxSendAudio == PbxSendKind("audio")

\* a peer that sends a UUID frame with other bytes than those of its call
OtherUuidPayload == [i \in 1..UuidLen |-> 186 + i]
PbxSendOtherUuid ==
    /\ peer = "open"
    /\ Len(pbx_log) < MaxFrames
    /\ net_in' = net_in \o WireFrame(T_uuid, OtherUuidPayload)
    /\ pbx_log' = Append(pbx_log, <<T_uuid, OtherUuidPayload>>)
    /\ UNCHANGED <<peer, sock_open, sock_out, sessvars, loopvars, appvars, rsvars,
                   lsvars, cbvars, fired, qvars, w2vars, srvars, auxvars>>

\* the PBX closes its end: after the bytes in flight, sock_recv returns b''
PbxClose ==
    /\ peer = "open"
    /\ peer' = "closed"
    /\ UNCHANGED <<net_in, sock_open, sock_out, pbx_log, sessvars, loopvars, appvars, rsvars,
                   lsvars, cbvars, fired, qvars, w2vars, srvars, auxvars>>

\* the connection is reset: sock_recv and sock_sendall raise from now on
PbxReset ==
    /\ peer \in {"open", "closed"}
    /\ peer' = "reset"
    /\ UNCHANGED <<net_in, sock_open, sock_out, pbx_log, sessvars, loopvars, appvars, rsvars,
                   lsvars, cbvars, fired, qvars, w2vars, srvars, auxvars>>

(***************************************************************************)
(* _process, the receive loop.                                             *)
(***************************************************************************)
\* variant: the finally clause closes the socket without a hangup
FinallyNoHangup(e, lw) ==
    /\ exc' = e
    /\ pc' = "fin_sleep"
    /\ lock' = lw[1]
    /\ lock_wait' = lw[2]

\* the finally clause starts: await self.hangup(), which returns at once
\* when hangup_sent is set and otherwise takes the lock to send
Finally(e, lw) ==
    /\ exc' = e
    /\ IF hangup_sent
       THEN /\ pc' = "fin_sleep"
            /\ lock' = lw[1]
            /\ lock_wait' = lw[2]
       ELSE /\ pc' = "fin_hangup"
            /\ lock' = Acq(lw[1], lw[2], "loop")[1]
            /\ lock_wait' = Acq(lw[1], lw[2], "loop")[2]

\* an audio chunk longer than a frame is truncated before it is sent
Truncate(audio_data) ==
    IF Len(audio_data) > FrameLen THEN Slice(audio_data, 0, FrameLen) ELSE audio_data

\* variant: a full queue drops the frame that arrives
RxAdmitDropsNewest(q, payload) ==
    IF Len(q) >= QueueCap THEN q ELSE Append(q, payload)

\* variant: nothing is dropped to make room
RxAdmitNoEvict(q, payload) == Append(q, payload)

\* if self._rx_q.full(): get_nowait(); then put(payload)
RxAdmit(q, payload) ==
    Append(IF Len(q) >= QueueCap THEN Tail(q) ELSE q, payload)

\* variant: the reply is silence whatever tx_q holds
ReplySilence(q) == [data |-> SilenceFrame, fromq |-> FALSE]

\* the reply to an AUDIO frame: silence when tx_q is empty, else its head
ReplyFor(q) ==
    IF q = <<>>
    THEN [data |-> SilenceFrame, fromq |-> FALSE]
    ELSE [data |-> AudioFrame(Truncate(Head(q))), fromq |-> TRUE]

\* if self._tx_q.empty(): silence; else: await self._tx_q.get(), which
\* suspends the loop only if it is called on an empty queue; then the
\* loop enters async with self._lock
TakeReply ==
    IF ReplyFor(tx_q).fromq /\ tx_q = <<>>
    THEN /\ pc' = "tx_get"
         /\ UNCHANGED <<reply, tx_q, lock, lock_wait>>
    ELSE /\ reply' = ReplyFor(tx_q)
         /\ tx_q' = IF tx_q = <<>> THEN tx_q ELSE Tail(tx_q)
         /\ lock' = Acq(lock, lock_wait, "loop")[1]
         /\ lock_wait' = Acq(lock, lock_wait, "loop")[2]
         /\ pc' = "reply"

\* type_byte == types.audio.  await self._rx_q.put(payload) suspends the
\* loop only if the queue is still full when it is called.
ProcessAudio(payload) ==
    /\ IF Len(RxAdmit(rx_q, payload)) > QueueCap
       THEN /\ pc' = "rx_put"
            /\ UNCHANGED <<rx_q, evicted, reply, tx_q, lock, lock_wait>>
       ELSE /\ rx_q' = RxAdmit(rx_q, payload)
            /\ evicted' = IF Len(rx_q) >= QueueCap THEN Append(evicted, Head(rx_q)) ELSE evicted
            /\ TakeReply
    /\ UNCHANGED <<uuid, exc>>

\* variant: the identifier is parsed and not stored
UuidNotStored(payload) ==
    /\ IF UuidValid(payload)
       THEN UNCHANGED <<uuid, pc, exc, lock, lock_wait>>
       ELSE /\ Finally("error", <<lock, lock_wait>>)
            /\ UNCHANGED uuid
    /\ UNCHANGED <<rx_q, evicted, reply, tx_q>>

\* type_byte == types.uuid: uuid.UUID(bytes=payload) raises ValueError
\* unless the payload has the length of a UUID
ProcessUuid(payload) ==
    /\ IF UuidValid(payload)
       THEN /\ uuid' = HexStr(payload)
            /\ UNCHANGED <<pc, exc, lock, lock_wait>>
       ELSE /\ Finally("error", <<lock, lock_wait>>)
            /\ UNCHANGED uuid
    /\ UNCHANGED <<rx_q, evicted, reply, tx_q>>

\* variant: the callback task is created twice
DispatchTwice(event, payload) ==
    IF event \in DOMAIN _event_callbacks
    THEN fired \o << [event |-> event, callback |-> _event_callbacks[event],
                      payload |-> payload],
                     [event |-> event, callback |-> _event_callbacks[event],
                      payload |-> payload] >>
    ELSE fired

\* if event in self._event_callbacks:
\*     asyncio.create_task(self._event_callbacks[event](payload))
Dispatch(event, payload) ==
    IF event \in DOMAIN _event_callbacks
    THEN Append(fired, [event |-> event, callback |-> _event_callbacks[event],
                        payload |-> payload])
    ELSE fired

\* dtmf, error and every other type byte (0x00 included): the loop goes on
ProcessOther ==
    UNCHANGED <<rx_q, evicted, reply, tx_q, lock, lock_wait, pc, uuid, exc>>

\* data = await sock_recv(conn, 323) returned the first k bytes of the
\* stream: the frame decoded from them is processed
Recv(k) ==
    LET f == _split_data(SubSeq(net_in, 1, k)) IN
    /\ pc = "recv"
    /\ ~cancel_req
    /\ net_in' = SubSeq(net_in, k + 1, Len(net_in))
    /\ proc_log' = Append(proc_log, <<f.type, f.payload>>)
    /\ CASE f.type = T_audio -> ProcessAudio(f.payload)
         [] f.type = T_uuid -> ProcessUuid(f.payload)
         [] OTHER -> ProcessOther
    /\ fired' = CASE f.type = T_dtmf -> Dispatch("dtmf", f.payload)
                  [] f.type = T_error -> Dispatch("error", f.payload)
                  [] f.type = T_uuid -> Dispatch("uuid", f.payload)
                  [] OTHER -> fired
    /\ UNCHANGED <<peer, sock_open, sock_out, pbx_log, connected, tx_unfinished,
                   tx_extra_data, hangup_sent, cancel_req, appvars, rsvars,
                   lsvars, cbvars, qvars, w2vars, srvars, auxvars>>

\* sock_recv returns any 1..323 bytes that have arrived, whatever the frames
LoopRecv ==
    /\ net_in # <<>>
    /\ \E k \in 1..Min(RecvMax, Len(net_in)) : Recv(k)

\* the network hands over one frame per read: sock_recv returns exactly
\* the next frame the PBX sent
LoopRecvFrame ==
    /\ Len(net_in) >= 3
    /\ 3 + FromBytes2(SubSeq(net_in, 2, 3)) <= Min(RecvMax, Len(net_in))
    /\ Recv(3 + FromBytes2(SubSeq(net_in, 2, 3)))

\* sock_recv returns b'' (peer closed) or raises ConnectionResetError: break
LoopRecvEnd ==
    /\ pc = "recv"
    /\ ~cancel_req
    /\ \/ net_in = <<>> /\ peer = "closed"
       \/ peer = "reset"
    /\ Finally("none", <<lock, lock_wait>>)
    /\ UNCHANGED <<sockvars, connected, uuid, rx_q, tx_q, tx_unfinished,
                   tx_extra_data, hangup_sent, reply, cancel_req, proc_log,
                   evicted, appvars, rsvars, lsvars, cbvars, fired, qvars, w2vars, srvars, auxvars>>

\* a put() on rx_q that had to wait finds room; a get() on tx_q that had
\* to wait finds a chunk
LoopPutResume ==
    /\ pc = "rx_put"
    /\ ~cancel_req
    /\ Len(rx_q) < QueueCap
    /\ rx_q' = Append(rx_q, proc_log[Len(proc_log)][2])
    /\ TakeReply
    /\ UNCHANGED <<sockvars, connected, uuid, tx_unfinished, tx_extra_data,
                   hangup_sent, exc, cancel_req, proc_log, evicted, appvars,
                   rsvars, lsvars, cbvars, fired, qvars, w2vars, srvars, auxvars>>

LoopGetResume ==
    /\ pc = "tx_get"
    /\ ~cancel_req
    /\ tx_q # <<>>
    /\ TakeReply
    /\ UNCHANGED <<sockvars, connected, uuid, rx_q, tx_unfinished, tx_extra_data,
                   hangup_sent, exc, cancel_req, proc_log, evicted, appvars,
                   rsvars, lsvars, cbvars, fired, qvars, w2vars, srvars, auxvars>>

\* async with self._lock: sock_sendall(conn, reply), then task_done()
LoopReply ==
    /\ pc = "reply"
    /\ lock = "loop"
    /\ ~cancel_req
    /\ \/ /\ peer # "reset"
          /\ sock_out' = Append(sock_out, [data |-> reply.data, res |-> "ok"])
          /\ tx_unfinished' = IF reply.fromq THEN tx_unfinished - 1 ELSE tx_unfinished
          /\ lock' = Rel(lock, lock_wait)[1]
          /\ lock_wait' = Rel(lock, lock_wait)[2]
          /\ pc' = "recv"
          /\ UNCHANGED exc
       \/ \* ConnectionResetError is suppressed
          /\ peer = "reset"
          /\ sock_out' = Append(sock_out, [data |-> reply.data, res |-> "reset"])
          /\ tx_unfinished' = IF reply.fromq THEN tx_unfinished - 1 ELSE tx_unfinished
          /\ lock' = Rel(lock, lock_wait)[1]
          /\ lock_wait' = Rel(lock, lock_wait)[2]
          /\ pc' = "recv"
          /\ UNCHANGED exc
       \/ \* BrokenPipeError is not: it leaves the loop
          /\ peer = "reset"
          /\ sock_out' = Append(sock_out, [data |-> reply.data, res |-> "pipe"])
          /\ Finally("error", Rel(lock, lock_wait))
          /\ UNCHANGED tx_unfinished
    /\ reply' = NoReply
    /\ UNCHANGED <<net_in, peer, sock_open, pbx_log, connected, uuid, rx_q, tx_q,
                   tx_extra_data, hangup_sent, cancel_req, proc_log, evicted, appvars, rsvars,
                   lsvars, cbvars, fired, qvars, w2vars, srvars, auxvars>>

\* finally: self.hangup() sends types.hangup * 3 under the lock
LoopHangup ==
    /\ pc = "fin_hangup"
    /\ lock = "loop"
    /\ ~cancel_req
    /\ \/ /\ peer # "reset"
          /\ sock_out' = Append(sock_out, [data |-> HangupBytes, res |-> "ok"])
          /\ hangup_sent' = TRUE
          /\ pc' = "fin_sleep"
       \/ \* sock_sendall raises: the exception leaves the finally clause
          /\ peer = "reset"
          /\ sock_out' = Append(sock_out, [data |-> HangupBytes, res |-> "pipe"])
          /\ pc' = "raised"
          /\ UNCHANGED hangup_sent
    /\ lock' = Rel(lock, lock_wait)[1]
    /\ lock_wait' = Rel(lock, lock_wait)[2]
    /\ UNCHANGED <<net_in, peer, sock_open, pbx_log, connected, uuid, rx_q, tx_q,
                   tx_unfinished, tx_extra_data, reply, exc, cancel_req, proc_log,
                   evicted, appvars, rsvars, lsvars, cbvars, fired, qvars, w2vars, srvars, auxvars>>

\* after sleep(0.2): self.conn.close(); self.connected = False
LoopClose ==
    /\ pc = "fin_sleep"
    /\ ~cancel_req
    /\ sock_open' = FALSE
    /\ connected' = FALSE
    /\ pc' = CASE exc = "none" -> "done"
               [] exc = "cancel" -> "cancelled"
               [] OTHER -> "raised"
    /\ UNCHANGED <<net_in, peer, sock_out, pbx_log, uuid, rx_q, tx_q, tx_unfinished,
                   tx_extra_data, lock, lock_wait, hangup_sent, reply, exc,
                   cancel_req, proc_log, evicted, appvars, rsvars, lsvars, cbvars, fired, qvars, w2vars, srvars, auxvars>>

\* CancelledError is thrown into the task at the await it is suspended at
LoopCancelled ==
    /\ cancel_req
    /\ pc \notin Terminal
    /\ cancel_req' = FALSE
    /\ IF pc \in {"recv", "reply", "rx_put", "tx_get"}
       THEN Finally("cancel", Leave(lock, lock_wait, "loop"))
       ELSE /\ pc' = "cancelled"
            /\ lock' = Leave(lock, lock_wait, "loop")[1]
            /\ lock_wait' = Leave(lock, lock_wait, "loop")[2]
            /\ UNCHANGED exc
    /\ \/ UNCHANGED sock_out
       \/ \* a sendall in progress may have written a part of its data
          /\ lock = "loop"
          /\ pc \in {"reply", "fin_hangup"}
          /\ sock_out' = Append(sock_out,
                [data |-> IF pc = "reply" THEN reply.data ELSE HangupBytes,
                 res |-> "partial"])
    /\ reply' = NoReply
    /\ UNCHANGED <<net_in, peer, sock_open, pbx_log, connected, uuid, rx_q, tx_q,
                   tx_unfinished, tx_extra_data, hangup_sent, proc_log, evicted,
                   appvars, rsvars, lsvars, cbvars, fired, qvars, w2vars, srvars, auxvars>>

(***************************************************************************)
(* hangup(), called by the application.                                    *)
(***************************************************************************)
\* if self.hangup_sent: return; else async with self._lock
AppHangup ==
    /\ hg = "idle"
    /\ calls.h < MaxHangups
    /\ calls' = [calls EXCEPT !.h = @ + 1]
    /\ IF hangup_sent
       THEN UNCHANGED <<hg, lock, lock_wait>>
       ELSE /\ hg' = "hangup"
            /\ lock' = Acq(lock, lock_wait, "app")[1]
            /\ lock_wait' = Acq(lock, lock_wait, "app")[2]
    /\ UNCHANGED <<sockvars, connected, uuid, rx_q, tx_q, tx_unfinished,
                   tx_extra_data, hangup_sent, loopvars, wr, written, put_log,
                   rd, read_log, cl, rsvars, lsvars, cbvars, fired, qvars, w2vars, srvars, auxvars>>

\* variant: hangup() also closes the socket and marks the session closed
AppHangupSendCloses ==
    /\ hg = "hangup"
    /\ lock = "app"
    /\ sock_out' = Append(sock_out, [data |-> HangupBytes, res |-> "ok"])
    /\ hangup_sent' = TRUE
    /\ sock_open' = FALSE
    /\ connected' = FALSE
    /\ lock' = Rel(lock, lock_wait)[1]
    /\ lock_wait' = Rel(lock, lock_wait)[2]
    /\ hg' = "idle"
    /\ UNCHANGED <<net_in, peer, pbx_log, uuid, rx_q, tx_q,
                   tx_unfinished, tx_extra_data, loopvars, wr, written, put_log,
                   rd, read_log, cl, calls, rsvars, lsvars, cbvars, fired, qvars, w2vars, srvars, auxvars>>

\* variant: hangup() sends without waiting for the lock
AppHangupSendNoLock ==
    /\ hg = "hangup"
    /\ IF peer # "reset" /\ sock_open
       THEN /\ sock_out' = Append(sock_out, [data |-> HangupBytes, res |-> "ok"])
            /\ hangup_sent' = TRUE
       ELSE /\ sock_out' = Append(sock_out, [data |-> HangupBytes, res |-> "pipe"])
            /\ UNCHANGED hangup_sent
    /\ lock' = Leave(lock, lock_wait, "app")[1]
    /\ lock_wait' = Leave(lock, lock_wait, "app")[2]
    /\ hg' = "idle"
    /\ UNCHANGED <<net_in, peer, sock_open, pbx_log, connected, uuid, rx_q, tx_q,
                   tx_unfinished, tx_extra_data, loopvars, wr, written, put_log,
                   rd, read_log, cl, calls, rsvars, lsvars, cbvars, fired, qvars, w2vars, srvars, auxvars>>

\* sock_sendall(conn, types.hangup * 3); self.hangup_sent = True
AppHangupSend ==
    /\ hg = "hangup"
    /\ lock = "app"
    /\ IF peer # "reset" /\ sock_open
       THEN /\ sock_out' = Append(sock_out, [data |-> HangupBytes, res |-> "ok"])
            /\ hangup_sent' = TRUE
       ELSE /\ sock_out' = Append(sock_out, [data |-> HangupBytes, res |-> "pipe"])
            /\ UNCHANGED hangup_sent
    /\ lock' = Rel(lock, lock_wait)[1]
    /\ lock_wait' = Rel(lock, lock_wait)[2]
    /\ hg' = "idle"
    /\ UNCHANGED <<net_in, peer, sock_open, pbx_log, connected, uuid, rx_q, tx_q,
                   tx_unfinished, tx_extra_data, loopvars, wr, written, put_log,
                   rd, read_log, cl, calls, rsvars, lsvars, cbvars, fired, qvars, w2vars, srvars, auxvars>>

(***************************************************************************)
(* The resampling stage: set_resampling() starts one task per direction,   *)
(* each spawning a converter process and piping audio through it.          *)
(***************************************************************************)
Live(task) == task \notin {"none", "ended"}
\* self._to_asterisk_resampler / self._from_asterisk_resampler is not None
ToProc == tx_task \in {"read", "put", "stop"}
FromProc == rx_task \in {"get", "stop"}

\* the converters: rate -> 8000 keeps one sample in `r`, 8000 -> rate
\* repeats each sample `r` times
RECURSIVE Decimate(_, _)
Decimate(s, r) ==
    IF Len(s) < r THEN <<>>
    ELSE <<Head(s)>> \o Decimate(SubSeq(s, r + 1, Len(s)), r)
RECURSIVE Repeat(_, _)
Repeat(s, r) ==
    IF s = <<>> THEN <<>>
    ELSE [i \in 1..r |-> Head(s)] \o Repeat(Tail(s), r)
Ratios == {1, 2}

\* _write_to_tx_queue from `audio` on: whole frames are put on tx_q while
\* there is room; a last short chunk becomes tx_extra_data
Chunk(audio, j) == Slice(audio, (j - 1) * FrameLen, j * FrameLen)
\* how many chunks tx_q takes before put() has to wait
NFit(audio, q) == Min(Len(audio) \div FrameLen, QueueCap - Len(q))
Chunks(audio, k) == [j \in 1..k |-> Chunk(audio, j)]
Rest(audio, k) == SubSeq(audio, k * FrameLen + 1, Len(audio))
\* what is left when put() has to wait for room (a whole frame or more)
Waiting(audio) == Rest(audio, NFit(audio, tx_q))
PutWaits(audio) == Len(Waiting(audio)) >= FrameLen

\* variant: the short tail of a write is dropped instead of carried over
WriteDropsTail(audio, extra) ==
    LET k == NFit(audio, tx_q) IN
    /\ tx_q' = tx_q \o Chunks(audio, k)
    /\ tx_unfinished' = tx_unfinished + k
    /\ put_log' = put_log \o Chunks(audio, k)
    /\ tx_extra_data' = extra

\* variant: the short tail of a write is queued as a chunk of its own
WriteQueuesTail(audio, extra) ==
    LET k == NFit(audio, tx_q)
        tail == IF PutWaits(audio) \/ Waiting(audio) = <<>>
                THEN <<>> ELSE <<Waiting(audio)>> IN
    /\ tx_q' = tx_q \o Chunks(audio, k) \o tail
    /\ tx_unfinished' = tx_unfinished + k + Len(tail)
    /\ put_log' = put_log \o Chunks(audio, k) \o tail
    /\ tx_extra_data' = extra

_write_to_tx_queue(audio, extra) ==
    LET k == NFit(audio, tx_q) IN
    /\ tx_q' = tx_q \o Chunks(audio, k)
    /\ tx_unfinished' = tx_unfinished + k
    /\ put_log' = put_log \o Chunks(audio, k)
    /\ tx_extra_data' = IF PutWaits(audio) \/ Waiting(audio) = <<>>
                        THEN extra
                        ELSE Waiting(audio)

\* set_resampling(rate, channels, audio_format)
SetResampling ==
    /\ tx_task = "none"
    /\ rx_task = "none"
    /\ \E r \in Ratios : ratio' = r
    /\ tx_task' = "spawn"
    /\ rx_task' = "spawn"
    /\ UNCHANGED <<sockvars, sessvars, loopvars, appvars, rs_cancel, to_in, to_out,
                   from_in, from_out, tx_rest, lsvars, cbvars, fired, qvars, w2vars, srvars, auxvars>>

\* set_resampling() called again: create_task is called whatever tasks
\* exist, and the new tasks replace the references to the old ones, which
\* nobody can cancel any more.  (What the replaced tasks go on to do is not
\* followed.)
SetResamplingAgain ==
    /\ tx_task # "none"
    /\ orphans.n < MaxSets - 1
    /\ sr.st = "idle"
    /\ cl = "idle"
    /\ rs_cancel = {}
    /\ \E r \in Ratios : ratio' = r
    /\ orphans' = [n |-> orphans.n + 1,
                   tx |-> orphans.tx + (IF Live(tx_task) THEN 1 ELSE 0),
                   rx |-> orphans.rx + (IF Live(rx_task) THEN 1 ELSE 0)]
    /\ tx_task' = "spawn"
    /\ rx_task' = "spawn"
    /\ tx_rest' = <<>>
    /\ UNCHANGED <<sockvars, sessvars, loopvars, appvars, rs_cancel, to_in, to_out,
                   from_in, from_out, lsvars, cbvars, fired, qvars, w2vars, srvars,
                   clear_mark, create_log>>

\* create_subprocess_exec returned: the converter is stored
TxSpawned ==
    /\ tx_task = "spawn"
    /\ "tx" \notin rs_cancel
    /\ tx_task' = IF connected THEN "read" ELSE "stop"
    /\ UNCHANGED <<sockvars, sessvars, loopvars, appvars, rx_task, rs_cancel, ratio,
                   to_in, to_out, from_in, from_out, tx_rest, lsvars, cbvars, fired, qvars, w2vars, srvars, auxvars>>

RxSpawned ==
    /\ rx_task = "spawn"
    /\ "rx" \notin rs_cancel
    /\ rx_task' = IF connected THEN "get" ELSE "stop"
    /\ UNCHANGED <<sockvars, sessvars, loopvars, appvars, tx_task, rs_cancel, ratio,
                   to_in, to_out, from_in, from_out, tx_rest, lsvars, cbvars, fired, qvars, w2vars, srvars, auxvars>>

\* the to-asterisk converter turns what it was fed into 8 kHz audio
FfmpegTo ==
    /\ Len(to_in) >= ratio
    /\ to_out' = to_out \o Decimate(to_in, ratio)
    /\ to_in' = SubSeq(to_in, Len(to_in) - (Len(to_in) % ratio) + 1, Len(to_in))
    /\ UNCHANGED <<sockvars, sessvars, loopvars, appvars, tx_task, rx_task, rs_cancel,
                   ratio, from_in, from_out, tx_rest, lsvars, cbvars, fired, qvars, w2vars, srvars, auxvars>>

\* the from-asterisk converter turns 8 kHz audio into the caller's rate
FfmpegFrom ==
    /\ from_in # <<>>
    /\ from_out' = from_out \o Repeat(from_in, ratio)
    /\ from_in' = <<>>
    /\ UNCHANGED <<sockvars, sessvars, loopvars, appvars, tx_task, rx_task, rs_cancel,
                   ratio, to_in, to_out, tx_rest, lsvars, cbvars, fired, qvars, w2vars, srvars, auxvars>>

\* _tx_resample: audio = await stdout.read(320); _write_to_tx_queue(audio)
TxRead ==
    /\ tx_task = "read"
    /\ "tx" \notin rs_cancel
    /\ to_out # <<>>
    /\ \E n \in 1..Min(FrameLen, Len(to_out)) :
         LET audio == tx_extra_data \o SubSeq(to_out, 1, n) IN
         /\ to_out' = SubSeq(to_out, n + 1, Len(to_out))
         /\ _write_to_tx_queue(audio, <<>>)
         /\ IF PutWaits(audio)
            THEN tx_task' = "put" /\ tx_rest' = Waiting(audio)
            ELSE /\ tx_task' = IF connected THEN "read" ELSE "stop"
                 /\ tx_rest' = <<>>
    /\ UNCHANGED <<sockvars, connected, uuid, rx_q, lock, lock_wait, hangup_sent,
                   loopvars, wr, written, rd, read_log, hg, cl, calls, rx_task,
                   rs_cancel, ratio, to_in, from_in, from_out, lsvars, cbvars, fired, qvars, w2vars, srvars, auxvars>>

\* _tx_resample: a put() that waited for room in tx_q goes on
TxPutResume ==
    /\ tx_task = "put"
    /\ "tx" \notin rs_cancel
    /\ Len(tx_q) < QueueCap
    /\ _write_to_tx_queue(tx_rest, tx_extra_data)
    /\ IF PutWaits(tx_rest)
       THEN tx_task' = "put" /\ tx_rest' = Waiting(tx_rest)
       ELSE /\ tx_task' = IF connected THEN "read" ELSE "stop"
            /\ tx_rest' = <<>>
    /\ UNCHANGED <<sockvars, connected, uuid, rx_q, lock, lock_wait, hangup_sent,
                   loopvars, wr, written, rd, read_log, hg, cl, calls, rx_task,
                   rs_cancel, ratio, to_in, to_out, from_in, from_out,
                   lsvars, cbvars, fired, qvars, w2vars, srvars, auxvars>>

\* _rx_resample: audio = await self._rx_q.get(); stdin.write(audio)
RxFeed ==
    /\ rx_task = "get"
    /\ "rx" \notin rs_cancel
    /\ rx_q # <<>>
    /\ from_in' = from_in \o Head(rx_q)
    /\ rx_q' = Tail(rx_q)
    /\ rx_task' = IF connected THEN "get" ELSE "stop"
    /\ UNCHANGED <<sockvars, connected, uuid, tx_q, tx_unfinished, tx_extra_data,
                   lock, lock_wait, hangup_sent, loopvars, appvars, tx_task,
                   rs_cancel, ratio, to_in, to_out, from_out, tx_rest,
                   lsvars, cbvars, fired, qvars, w2vars, srvars, auxvars>>

\* CancelledError reaches a resampling task: outside the try block the task
\* just ends, inside it the finally clause stops the converter
TxCancelled ==
    /\ "tx" \in rs_cancel
    /\ Live(tx_task)
    /\ rs_cancel' = rs_cancel \ {"tx"}
    /\ tx_task' = IF tx_task \in {"read", "put"} THEN "stop" ELSE "ended"
    /\ tx_rest' = <<>>
    /\ UNCHANGED <<sockvars, sessvars, loopvars, appvars, rx_task, ratio, to_in,
                   to_out, from_in, from_out, lsvars, cbvars, fired, qvars, w2vars, srvars, auxvars>>

RxCancelled ==
    /\ "rx" \in rs_cancel
    /\ Live(rx_task)
    /\ rs_cancel' = rs_cancel \ {"rx"}
    /\ rx_task' = IF rx_task = "get" THEN "stop" ELSE "ended"
    /\ UNCHANGED <<sockvars, sessvars, loopvars, appvars, tx_task, ratio, to_in,
                   to_out, from_in, from_out, tx_rest, lsvars, cbvars, fired, qvars, w2vars, srvars, auxvars>>

\* _stop_process is over: stdin closed, stdout read to EOF and dropped
TxStopped ==
    /\ tx_task = "stop"
    /\ "tx" \notin rs_cancel
    /\ tx_task' = "ended"
    /\ to_in' = <<>>
    /\ to_out' = <<>>
    /\ UNCHANGED <<sockvars, sessvars, loopvars, appvars, rx_task, rs_cancel, ratio,
                   from_in, from_out, tx_rest, lsvars, cbvars, fired, qvars, w2vars, srvars, auxvars>>

RxStopped ==
    /\ rx_task = "stop"
    /\ "rx" \notin rs_cancel
    /\ rx_task' = "ended"
    /\ from_in' = <<>>
    /\ from_out' = <<>>
    /\ UNCHANGED <<sockvars, sessvars, loopvars, appvars, tx_task, rs_cancel, ratio,
                   to_in, to_out, tx_rest, lsvars, cbvars, fired, qvars, w2vars, srvars, auxvars>>

(***************************************************************************)
(* stop_resampling(), called by the application on a running session.      *)
(***************************************************************************)
\* what the converters still owe: towards the PBX the chunk _tx_resample is
\* putting, the converted bytes not yet read and the conversion of the bytes
\* written to stdin; towards read() the same of the other converter
StageHolds ==
    [to |-> tx_rest \o to_out \o Decimate(to_in, ratio),
     from |-> from_out \o Repeat(from_in, ratio)]

\* cancel and await the rx task, then the tx task; a task that has ended
\* (or was never started) is not waited for
StopGoesOn(n) ==
    IF Live(rx_task)
    THEN /\ sr' = [st |-> "stop_rx", n |-> n]
         /\ rs_cancel' = rs_cancel \cup {"rx"}
    ELSE IF Live(tx_task)
    THEN /\ sr' = [st |-> "stop_tx", n |-> n]
         /\ rs_cancel' = rs_cancel \cup {"tx"}
    ELSE /\ sr' = [st |-> "idle", n |-> n]
         /\ UNCHANGED rs_cancel

StopResampling ==
    /\ sr.st = "idle"
    /\ sr.n < MaxStops
    /\ cl = "idle"
    /\ held' = Append(held, StageHolds)
    /\ StopGoesOn(sr.n + 1)
    /\ UNCHANGED <<sockvars, sessvars, loopvars, appvars, tx_task, rx_task, ratio,
                   to_in, to_out, from_in, from_out, tx_rest, lsvars, cbvars,
                   fired, qvars, w2vars, auxvars>>

\* the resampling task that stop_resampling() awaited has ended
StopResamplingStep ==
    /\ \/ sr.st = "stop_rx" /\ ~Live(rx_task)
       \/ sr.st = "stop_tx" /\ ~Live(tx_task)
    /\ StopGoesOn(sr.n)
    /\ UNCHANGED <<sockvars, sessvars, loopvars, appvars, tx_task, rx_task, ratio,
                   to_in, to_out, from_in, from_out, tx_rest, lsvars, cbvars,
                   fired, qvars, w2vars, held, auxvars>>

(***************************************************************************)
(* close(), called by the application.                                     *)
(***************************************************************************)
\* stop_resampling() cancels and awaits the rx task, then the tx task;
\* then self._task.cancel(), which does nothing to a task that has ended
CloseGoesOn ==
    IF Live(rx_task)
    THEN /\ cl' = "stop_rx"
         /\ rs_cancel' = rs_cancel \cup {"rx"}
         /\ UNCHANGED cancel_req
    ELSE IF Live(tx_task)
    THEN /\ cl' = "stop_tx"
         /\ rs_cancel' = rs_cancel \cup {"tx"}
         /\ UNCHANGED cancel_req
    ELSE /\ cl' = "await"
         /\ cancel_req' = (cancel_req \/ pc \notin Terminal)
         /\ UNCHANGED rs_cancel

\* if not connected: return; drain_send_queue() returns at once when
\* tx_q has no unfinished task
AppClose ==
    /\ cl = "idle"
    /\ calls.c < MaxCloses
    /\ calls' = [calls EXCEPT !.c = @ + 1]
    /\ IF ~connected
       THEN UNCHANGED <<cl, cancel_req, rs_cancel>>
       ELSE IF tx_unfinished = 0
            THEN CloseGoesOn
            ELSE cl' = "drain" /\ UNCHANGED <<cancel_req, rs_cancel>>
    /\ UNCHANGED <<sockvars, sessvars, pc, reply, exc, proc_log, evicted,
                   wr, written, put_log, rd, read_log, hg, tx_task, rx_task, ratio,
                   to_in, to_out, from_in, from_out, tx_rest, lsvars, cbvars, fired, qvars, w2vars, srvars, auxvars>>

\* wait_for(self._tx_q.join(), timeout=5) is over (joined or timed out), or
\* the resampling task that stop_resampling() awaited has ended
AppCloseStep ==
    /\ \/ cl = "drain"
       \/ cl = "stop_rx" /\ ~Live(rx_task)
       \/ cl = "stop_tx" /\ ~Live(tx_task)
    /\ CloseGoesOn
    /\ UNCHANGED <<sockvars, sessvars, pc, reply, exc, proc_log, evicted,
                   wr, written, put_log, rd, read_log, hg, calls, tx_task, rx_task,
                   ratio, to_in, to_out, from_in, from_out, tx_rest, lsvars, cbvars, fired, qvars, w2vars, srvars, auxvars>>

\* await self._task is over
AppCloseReturn ==
    /\ cl = "await"
    /\ pc \in Terminal
    /\ cl' = "idle"
    /\ UNCHANGED <<sockvars, sessvars, loopvars, wr, written, put_log, rd,
                   read_log, hg, calls, rsvars, lsvars, cbvars, fired, qvars, w2vars, srvars, auxvars>>

(***************************************************************************)
(* write().                                                                *)
(***************************************************************************)
\* the bytes of the n-th write continue a counter pattern
Pattern(start, n) == [i \in 1..n |-> start + i]
WriteLens == 0..(2 * FrameLen + 1)

\* write(data) on a connected session: to the converter if there is one
\* (one that is being stopped: AppWriteStageGone), else to
\* _write_to_tx_queue
AppWrite ==
    /\ wr.st = "idle"
    /\ calls.w < MaxWrites
    /\ connected
    /\ tx_task # "stop"
    /\ calls' = [calls EXCEPT !.w = @ + 1]
    /\ \E n \in WriteLens :
         /\ written' = written + n
         /\ IF ToProc
            THEN /\ to_in' = to_in \o Pattern(written, n)
                 /\ UNCHANGED <<wr, tx_q, tx_unfinished, put_log, tx_extra_data>>
            ELSE LET audio == tx_extra_data \o Pattern(written, n) IN
                 /\ _write_to_tx_queue(audio, <<>>)
                 /\ wr' = IF PutWaits(audio)
                          THEN [st |-> "put", rest |-> Waiting(audio)]
                          ELSE [st |-> "idle", rest |-> <<>>]
                 /\ UNCHANGED to_in
    /\ UNCHANGED <<sockvars, connected, uuid, rx_q, lock, lock_wait, hangup_sent,
                   loopvars, rd, read_log, hg, cl, tx_task, rx_task, rs_cancel,
                   ratio, to_out, from_in, from_out, tx_rest, lsvars, cbvars, fired, qvars, w2vars, srvars, auxvars>>

\* a put() that waited for room in tx_q goes on
AppWriteResume ==
    /\ wr.st = "put"
    /\ Len(tx_q) < QueueCap
    /\ _write_to_tx_queue(wr.rest, tx_extra_data)
    /\ wr' = IF PutWaits(wr.rest)
             THEN [st |-> "put", rest |-> Waiting(wr.rest)]
             ELSE [st |-> "idle", rest |-> <<>>]
    /\ UNCHANGED <<sockvars, connected, uuid, rx_q, lock, lock_wait, hangup_sent,
                   loopvars, written, rd, read_log, hg, cl, calls, rsvars,
                   lsvars, cbvars, fired, qvars, w2vars, srvars, auxvars>>

(***************************************************************************)
(* read() and write() while a converter is being stopped: the attribute    *)
(* still refers to the process, whose stdin _stop_process has closed and   *)
(* whose stdout it reads to EOF.                                           *)
(***************************************************************************)
ConnectionResetError == "ConnectionResetError"
RuntimeError == "RuntimeError"

\* write(): stdin.write(data) on the closed pipe drops the data and
\* await stdin.drain() raises ConnectionResetError('Connection lost')
AppWriteStageGone ==
    /\ wr.st = "idle"
    /\ calls.w < MaxWrites
    /\ Len(calls.x) < MaxRaises
    /\ connected
    /\ tx_task = "stop"
    /\ calls' = [calls EXCEPT !.w = @ + 1,
                              !.x = Append(@, <<"write", ConnectionResetError>>)]
    /\ UNCHANGED <<sockvars, sessvars, loopvars, wr, written, put_log, rd,
                   read_log, hg, cl, rsvars, lsvars, cbvars, fired, qvars,
                   w2vars, srvars, auxvars>>

\* read(): stdout.read(n) on an empty buffer while _stop_process is waiting
\* in stdout.read(): a StreamReader lets only one coroutine wait and raises
\* RuntimeError in the second.  (When _stop_process is not there yet, read()
\* waits as in AppRead.)
AppReadStageGone ==
    /\ rd = "idle"
    /\ Len(calls.x) < MaxRaises
    /\ connected
    /\ rx_task = "stop"
    /\ from_out = <<>>
    /\ calls' = [calls EXCEPT !.x = Append(@, <<"read", RuntimeError>>)]
    /\ UNCHANGED <<sockvars, sessvars, loopvars, wr, written, put_log, rd,
                   read_log, hg, cl, rsvars, lsvars, cbvars, fired, qvars,
                   w2vars, srvars, auxvars>>

(***************************************************************************)
(* Two tasks calling write() on a session without a converter.  A put() on *)
(* a full asyncio.Queue queues the caller behind the earlier waiters; a    *)
(* get() wakes the first waiter; a waiter that finds the queue full again  *)
(* goes to the back.                                                       *)
(***************************************************************************)
Writers == {"A", "B"}
\* a short write, a frame and a bit, and more than tx_q holds
WriteLens2 == {1, FrameLen + 1, (QueueCap + 1) * FrameLen + 1}
SubmittedBytes == Flatten(submitted)

\* write(data) by task t: _write_to_tx_queue(data) up to its first
\* suspension
WriteCall2(t) ==
    /\ wrs[t].st = "idle"
    /\ Len(submitted) < MaxWrites
    /\ connected
    /\ \E n \in WriteLens2 :
         LET data == Pattern(Len(SubmittedBytes), n)
             audio == tx_extra_data \o data IN
         /\ submitted' = Append(submitted, data)
         /\ _write_to_tx_queue(audio, <<>>)
         /\ IF PutWaits(audio)
            THEN /\ wrs' = [wrs EXCEPT ![t] = [st |-> "put", rest |-> Waiting(audio)]]
                 /\ putters' = Append(putters, t)
            ELSE UNCHANGED <<wrs, putters>>
    /\ UNCHANGED <<sockvars, connected, uuid, rx_q, lock, lock_wait, hangup_sent,
                   loopvars, wr, written, rd, read_log, hg, cl, calls, rsvars,
                   lsvars, cbvars, fired, qvars, srvars, auxvars>>

\* the first waiting put() is woken by a get() and finds room
WriteResume2(t) ==
    /\ putters # <<>>
    /\ t = Head(putters)
    /\ Len(tx_q) < QueueCap
    /\ _write_to_tx_queue(wrs[t].rest, tx_extra_data)
    /\ IF PutWaits(wrs[t].rest)
       THEN /\ wrs' = [wrs EXCEPT ![t].rest = Waiting(wrs[t].rest)]
            /\ putters' = Append(Tail(putters), t)
       ELSE /\ wrs' = [wrs EXCEPT ![t] = [st |-> "idle", rest |-> <<>>]]
            /\ putters' = Tail(putters)
    /\ UNCHANGED <<sockvars, connected, uuid, rx_q, lock, lock_wait, hangup_sent,
                   loopvars, wr, written, rd, read_log, hg, cl, calls, rsvars,
                   lsvars, cbvars, fired, qvars, submitted, srvars, auxvars>>

WritersCall == \E t \in Writers : WriteCall2(t)
WritersResume == \E t \in Writers : WriteResume2(t)

(***************************************************************************)
(* read().                                                                 *)
(***************************************************************************)
\* audio = await self._rx_q.get(): the oldest payload of the queue
RxGet(q) == Head(q)

\* read() on a connected session: from the converter if there is one (it
\* waits for converted bytes), else from rx_q (it waits for a payload)
AppRead ==
    /\ rd = "idle"
    /\ connected
    /\ IF FromProc
       THEN rd' = "pipe" /\ UNCHANGED <<rx_q, read_log>>
       ELSE IF rx_q = <<>>
            THEN rd' = "get" /\ UNCHANGED <<rx_q, read_log>>
            ELSE /\ read_log' = Append(read_log, RxGet(rx_q))
                 /\ rx_q' = Tail(rx_q)
                 /\ UNCHANGED rd
    /\ UNCHANGED <<sockvars, connected, uuid, tx_q, tx_unfinished, tx_extra_data,
                   lock, lock_wait, hangup_sent, loopvars, wr, written, put_log,
                   hg, cl, calls, rsvars, lsvars, cbvars, fired, qvars, w2vars, srvars, auxvars>>

\* a get() that waited for a payload returns
AppReadResume ==
    /\ rd = "get"
    /\ rx_q # <<>>
    /\ read_log' = Append(read_log, RxGet(rx_q))
    /\ rx_q' = Tail(rx_q)
    /\ rd' = "idle"
    /\ UNCHANGED <<sockvars, connected, uuid, tx_q, tx_unfinished, tx_extra_data,
                   lock, lock_wait, hangup_sent, loopvars, wr, written, put_log,
                   hg, cl, calls, rsvars, lsvars, cbvars, fired, qvars, w2vars, srvars, auxvars>>

\* stdout.read(int(320 * factor)) of the from-asterisk converter returns
AppReadPipe ==
    /\ rd = "pipe"
    /\ from_out # <<>>
    /\ \E n \in 1..Min(FrameLen * ratio, Len(from_out)) :
         /\ read_log' = Append(read_log, SubSeq(from_out, 1, n))
         /\ from_out' = SubSeq(from_out, n + 1, Len(from_out))
    /\ rd' = "idle"
    /\ UNCHANGED <<sockvars, sessvars, loopvars, wr, written, put_log, hg, cl, calls,
                   tx_task, rx_task, rs_cancel, ratio, to_in, to_out, from_in,
                   tx_rest, lsvars, cbvars, fired, qvars, w2vars, srvars, auxvars>>

(***************************************************************************)
(* read() and write() on a session that is not connected.                  *)
(***************************************************************************)
InvalidStateException == "InvalidStateException"

\* variant: read() reports the state of the connection
ReadRaisesTransport ==
    /\ rd = "idle"
    /\ peer # "open"
    /\ Len(calls.x) < MaxRaises
    /\ calls' = [calls EXCEPT !.x = Append(@, <<"read", "ConnectionError">>)]
    /\ UNCHANGED <<sockvars, sessvars, loopvars, wr, written, put_log, rd,
                   read_log, hg, cl, rsvars, lsvars, cbvars, fired, qvars, w2vars, srvars, auxvars>>

\* read(): if not self.connected: raise InvalidStateException
AppReadRaises ==
    /\ rd = "idle"
    /\ ~connected
    /\ Len(calls.x) < MaxRaises
    /\ calls' = [calls EXCEPT !.x = Append(@, <<"read", InvalidStateException>>)]
    /\ UNCHANGED <<sockvars, sessvars, loopvars, wr, written, put_log, rd,
                   read_log, hg, cl, rsvars, lsvars, cbvars, fired, qvars, w2vars, srvars, auxvars>>

\* variant: write() keeps the bytes for later
WriteOnClosedKeeps ==
    /\ wr.st = "idle"
    /\ ~connected
    /\ Len(calls.x) < MaxRaises
    /\ calls' = [calls EXCEPT !.x = Append(@, <<"write", InvalidStateException>>)]
    /\ tx_extra_data' = tx_extra_data \o <<1>>
    /\ UNCHANGED <<sockvars, connected, uuid, rx_q, tx_q, tx_unfinished, lock,
                   lock_wait, hangup_sent, loopvars, wr, written, put_log, rd,
                   read_log, hg, cl, rsvars, lsvars, cbvars, fired, qvars, w2vars, srvars, auxvars>>

\* write(): if not self.connected: raise InvalidStateException
AppWriteRaises ==
    /\ wr.st = "idle"
    /\ ~connected
    /\ Len(calls.x) < MaxRaises
    /\ calls' = [calls EXCEPT !.x = Append(@, <<"write", InvalidStateException>>)]
    /\ UNCHANGED <<sockvars, sessvars, loopvars, wr, written, put_log, rd,
                   read_log, hg, cl, rsvars, lsvars, cbvars, fired, qvars, w2vars, srvars, auxvars>>

(***************************************************************************)
(* clear_send_queue(), clear_receive_queue() and drain_send_queue().       *)
(***************************************************************************)
\* variant: a removed item is not counted as done
TaskDoneSkipped(n) == n

\* Queue.task_done(): one unfinished task less
task_done(n) == n - 1

\* variant: clear_send_queue() gives up while the queue still has items
ClearReturnsEarly(q) ==
    /\ clr[q].st = "run"
    /\ clr' = [clr EXCEPT ![q].st = "idle"]
    /\ clear_mark' = IF q = "tx" /\ wr.st = "idle" THEN written ELSE clear_mark
    /\ UNCHANGED <<sockvars, sessvars, loopvars, appvars, rsvars, lsvars,
                   cbvars, fired, w2vars, srvars, dr, dr_log, cleared, orphans,
                   create_log>>

\* clear_send_queue() / clear_receive_queue() is called
ClearCall(q) ==
    /\ clr[q].st = "idle"
    /\ clr[q].n < MaxClears
    /\ clr' = [clr EXCEPT ![q] = [st |-> "run", n |-> @.n + 1]]
    /\ UNCHANGED <<sockvars, sessvars, loopvars, appvars, rsvars, lsvars,
                   cbvars, fired, w2vars, srvars, auxvars, dr, dr_log, cleared>>

\* clear_send_queue: await wait_for(self._tx_q.get(), 0.5) returns an item;
\* self._tx_q.task_done()
ClearSendStep ==
    /\ clr["tx"].st = "run"
    /\ tx_q # <<>>
    /\ tx_q' = Tail(tx_q)
    /\ tx_unfinished' = task_done(tx_unfinished)
    /\ cleared' = [cleared EXCEPT !["tx"] = Append(@, Head(tx_q))]
    /\ UNCHANGED <<sockvars, connected, uuid, rx_q, tx_extra_data, lock,
                   lock_wait, hangup_sent, loopvars, appvars, rsvars, lsvars,
                   cbvars, fired, w2vars, srvars, auxvars, dr, dr_log, clr>>

\* clear_receive_queue: await wait_for(self._rx_q.get(), 0.2) returns an item
ClearRecvStep ==
    /\ clr["rx"].st = "run"
    /\ rx_q # <<>>
    /\ rx_q' = Tail(rx_q)
    /\ cleared' = [cleared EXCEPT !["rx"] = IF Len(@) < MaxFrames
                                             THEN Append(@, Head(rx_q))
                                             ELSE @]
    /\ UNCHANGED <<sockvars, connected, uuid, tx_q, tx_unfinished, tx_extra_data,
                   lock, lock_wait, hangup_sent, loopvars, appvars, rsvars,
                   lsvars, cbvars, fired, w2vars, srvars, auxvars, dr, dr_log, clr>>

\* the get() has waited for the whole timeout on an empty queue:
\* TimeoutError, break
ClearReturn(q) ==
    /\ clr[q].st = "run"
    /\ IF q = "tx" THEN tx_q = <<>> ELSE rx_q = <<>>
    /\ clr' = [clr EXCEPT ![q].st = "idle"]
    /\ clear_mark' = IF q = "tx" /\ wr.st = "idle" THEN written ELSE clear_mark
    /\ UNCHANGED <<sockvars, sessvars, loopvars, appvars, rsvars, lsvars,
                   cbvars, fired, w2vars, srvars, dr, dr_log, cleared, orphans,
                   create_log>>

\* one frame period of a call that goes on beyond the frames the histories
\* record: the PBX sends the next AUDIO frame, the loop receives it, admits
\* it to rx_q (dropping the oldest payload of a full queue), takes its
\* reply from tx_q and writes it
FramePeriod ==
    /\ peer = "open"
    /\ Len(pbx_log) = MaxFrames
    /\ net_in = <<>>
    /\ pc = "recv"
    /\ ~cancel_req
    /\ lock = "free"
    /\ rx_q' = RxAdmit(rx_q, AudioPayload(MaxFrames))
    /\ tx_q' = IF tx_q = <<>> THEN tx_q ELSE Tail(tx_q)
    /\ tx_unfinished' = IF tx_q = <<>> THEN tx_unfinished ELSE task_done(tx_unfinished)
    /\ UNCHANGED <<sockvars, connected, uuid, tx_extra_data, lock, lock_wait,
                   hangup_sent, loopvars, appvars, rsvars, lsvars, cbvars, fired,
                   qvars, w2vars, srvars, auxvars>>

ClearSendCall == ClearCall("tx")
ClearRecvCall == ClearCall("rx")
ClearSendReturn == ClearReturn("tx")
ClearRecvReturn == ClearReturn("rx")

\* drain_send_queue(): if not self.connected: return; await self._tx_q.join(),
\* which returns at once when the queue has no unfinished task
DrainCall ==
    /\ dr.st = "idle"
    /\ dr.n < MaxDrains
    /\ IF ~connected \/ tx_unfinished = 0
       THEN /\ dr' = [dr EXCEPT !.n = @ + 1, !.mark = Len(put_log)]
            /\ dr_log' = Append(dr_log, [connected |-> connected,
                                         waited |-> FALSE,
                                         mark |-> Len(put_log)])
       ELSE /\ dr' = [st |-> "join", mark |-> Len(put_log), n |-> dr.n + 1]
            /\ UNCHANGED dr_log
    /\ UNCHANGED <<sockvars, sessvars, loopvars, appvars, rsvars, lsvars,
                   cbvars, fired, w2vars, srvars, auxvars, clr, cleared>>

\* the count of unfinished tasks of tx_q is zero: join() is woken
DrainWake ==
    /\ dr.st = "join"
    /\ tx_unfinished = 0
    /\ dr' = [dr EXCEPT !.st = "woken"]
    /\ UNCHANGED <<sockvars, sessvars, loopvars, appvars, rsvars, lsvars,
                   cbvars, fired, w2vars, srvars, auxvars, dr_log, clr, cleared>>

\* drain_send_queue() returns
DrainReturn ==
    /\ dr.st = "woken"
    /\ dr' = [dr EXCEPT !.st = "idle"]
    /\ dr_log' = Append(dr_log, [connected |-> TRUE, waited |-> TRUE,
                                 mark |-> dr.mark])
    /\ UNCHANGED <<sockvars, sessvars, loopvars, appvars, rsvars, lsvars,
                   cbvars, fired, w2vars, srvars, auxvars, clr, cleared>>

(***************************************************************************)
(* The listener, AudiosocketAsync (src/asteramisk/internal/audiosocket.py):*)
(* a listening socket, the _listen_loop task that accepts connections and  *)
(* registers their sessions by stream id, and accept(stream_id).           *)
(***************************************************************************)
Conns == 1..MaxConns
StreamIds == {"a", "b"}
\* a port given by the caller (src/test.py binds 51001), or none (0)
TestPort == 51001
Ports == {0, TestPort}
\* the port the OS hands out when asked to bind port 0
EphemeralPort == 49152
\* bind((addr, port)); self.port = getsockname()[1]
BoundPort(p) == IF p = 0 THEN EphemeralPort ELSE p

\* listen() passes conn, peer_addr, user_resample, asterisk_resample to
\* create(); __create__(self, conn, peer_addr) takes two
CreateArgs == 4
CreateParams == 2

lsrest == <<sockvars, sessvars, loopvars, appvars, rsvars, cbvars, fired,
           qvars, w2vars, srvars, auxvars>>

\* AudiosocketAsync.create(bind_port = p)
ListenerCreate ==
    /\ listener = "none"
    /\ \E p \in Ports :
         /\ bind_port' = p
         /\ IF p = 0
            THEN \* if not bind_port: raise ValueError
                 /\ listener' = "failed"
                 /\ UNCHANGED <<port, l_loop>>
            ELSE /\ listener' = "listening"
                 /\ port' = BoundPort(p)
                 /\ l_loop' = "accept"
    /\ UNCHANGED <<lsrest, backlog, csock, cuuid, l_cur, connections, acc>>

\* AsyncSingleton.create() called when cls._instance is set: the instance
\* is returned as it is, __create__ is not called
ListenerCreateAgain ==
    /\ listener # "none"
    /\ Len(create_log) < MaxCreates
    /\ create_log' = Append(create_log, listener)
    /\ UNCHANGED <<sockvars, sessvars, loopvars, appvars, rsvars, lsvars, cbvars,
                   fired, qvars, w2vars, srvars, clear_mark, orphans>>

\* a PBX connects to the listening socket
PeerConnect ==
    /\ listener = "listening"
    /\ \E c \in Conns :
         /\ csock[c] = "none"
         /\ csock' = [csock EXCEPT ![c] = "backlog"]
         /\ backlog' = Append(backlog, c)
    /\ UNCHANGED <<lsrest, listener, bind_port, port, cuuid, l_loop, l_cur,
                   connections, acc>>

\* the PBX sends the UUID frame of its call on a connection it has made
PeerSendUuid ==
    /\ \E c \in Conns, id \in StreamIds :
         /\ csock[c] # "none"
         /\ cuuid[c] = ""
         /\ cuuid' = [cuuid EXCEPT ![c] = id]
    /\ UNCHANGED <<lsrest, listener, bind_port, port, backlog, csock, l_loop,
                   l_cur, connections, acc>>

\* _listen_loop: audconn = await self.listen(): sock_accept returns a
\* connection and AudioSocketConnectionAsync.create is called on it; an
\* exception of create leaves listen() and ends the loop (except Exception)
ListenAccept ==
    /\ l_loop = "accept"
    /\ listener = "listening"
    /\ backlog # <<>>
    /\ backlog' = Tail(backlog)
    /\ IF CreateArgs = CreateParams
       THEN /\ csock' = [csock EXCEPT ![Head(backlog)] = "session"]
            /\ l_loop' = "uuid"
            /\ l_cur' = Head(backlog)
       ELSE \* TypeError: __create__() takes 3 positional arguments
            /\ csock' = [csock EXCEPT ![Head(backlog)] = "orphan"]
            /\ l_loop' = "ended"
            /\ UNCHANGED l_cur
    /\ UNCHANGED <<lsrest, listener, bind_port, port, cuuid, connections, acc>>

\* _listen_loop: stream_id = await audconn.get_uuid();
\* self.connections[stream_id] = audconn
ListenGotUuid ==
    /\ l_loop = "uuid"
    /\ cuuid[l_cur] # ""
    /\ connections' = {e \in connections : e[1] # cuuid[l_cur]}
                         \cup {<<cuuid[l_cur], l_cur>>}
    /\ l_loop' = "accept"
    /\ UNCHANGED <<lsrest, listener, bind_port, port, backlog, csock, cuuid,
                   l_cur, acc>>

\* sock_accept on a socket that was closed under it may raise (the loop
\* ends) or never return
ListenLoopEnds ==
    /\ l_loop = "accept"
    /\ listener = "closed"
    /\ l_loop' = "ended"
    /\ UNCHANGED <<lsrest, listener, bind_port, port, backlog, csock, cuuid,
                   l_cur, connections, acc>>

Registered(id) == \E e \in connections : e[1] = id
Lookup(id) == (CHOOSE e \in connections : e[1] = id)[2]

\* accept(stream_id): while stream_id not in self.connections: sleep(0.1);
\* return self.connections[stream_id].  One step is the call or one poll.
Accept ==
    /\ listener \in {"listening", "closed"}
    /\ \E id \in StreamIds :
         /\ acc[id].st \in {"idle", "poll"}
         /\ acc' = [acc EXCEPT ![id] =
                       IF Registered(id)
                       THEN [st |-> "returned", obj |-> Lookup(id)]
                       ELSE [st |-> "poll", obj |-> 0]]
    /\ UNCHANGED <<lsrest, listener, bind_port, port, backlog, csock, cuuid,
                   l_loop, l_cur, connections>>

\* variant: close() also tears down the sessions
ListenerCloseAll ==
    /\ listener = "listening"
    /\ listener' = "closed"
    /\ connected' = FALSE
    /\ sock_open' = FALSE
    /\ connections' = {}
    /\ UNCHANGED <<net_in, peer, sock_out, pbx_log, uuid, rx_q, tx_q,
                   tx_unfinished, tx_extra_data, lock, lock_wait, hangup_sent,
                   loopvars, appvars, rsvars, cbvars, fired, qvars, w2vars, srvars, auxvars, bind_port,
                   port,
                   backlog, csock, cuuid, l_loop, l_cur, acc>>

\* close(): self.initial_sock.close()
ListenerClose ==
    /\ listener = "listening"
    /\ listener' = "closed"
    /\ UNCHANGED <<lsrest, bind_port, port, backlog, csock, cuuid, l_loop,
                   l_cur, connections, acc>>

(***************************************************************************)
(* on(event, callback)                                                     *)
(***************************************************************************)
OnEvents == {"uuid", "dtmf", "error", "audio", "hangup"}
Callbacks == {"f", "g"}
ValueError == "ValueError"

\* variant: a registration replaces the whole dict
OnReplacesAll(d, event, callback) ==
    IF event \notin {"uuid", "dtmf", "error"}
    THEN [cbs |-> d, raised |-> ValueError]
    ELSE [cbs |-> [e \in {event} |-> callback], raised |-> "none"]

\* if event not in ['uuid', 'dtmf', 'error']: raise ValueError
\* self._event_callbacks[event] = callback
on(d, event, callback) ==
    IF event \notin {"uuid", "dtmf", "error"}
    THEN [cbs |-> d, raised |-> ValueError]
    ELSE [cbs |-> [e \in DOMAIN d \cup {event} |->
                      IF e = event THEN callback ELSE d[e]],
          raised |-> "none"]

\* the application calls on(event, callback)
OnCall ==
    /\ \E event \in OnEvents, callback \in Callbacks :
         LET r == on(_event_callbacks, event, callback) IN
           /\ _event_callbacks' = r.cbs
           /\ on_log' = Append(on_log, [event |-> event, callback |-> callback,
                                        raised |-> r.raised])
    /\ UNCHANGED <<sockvars, sessvars, loopvars, appvars, rsvars, lsvars,
                   fired, qvars, w2vars, srvars, auxvars>>

On == Len(on_log) < MaxOns /\ OnCall

\* the application registers callbacks on a session that is running
OnRunning == Len(on_log) < MaxRegs /\ OnCall

Next ==
    \/ PbxSend \/ PbxClose \/ PbxReset
    \/ LoopRecv \/ LoopRecvEnd \/ LoopReply \/ LoopHangup \/ LoopClose \/ LoopCancelled
    \/ LoopPutResume \/ LoopGetResume
    \/ AppHangup \/ AppHangupSend
    \/ AppClose \/ AppCloseStep \/ AppCloseReturn
    \/ AppWrite \/ AppWriteResume
    \/ AppRead \/ AppReadResume \/ AppReadPipe
    \/ AppReadRaises \/ AppWriteRaises
    \/ SetResampling \/ TxSpawned \/ RxSpawned \/ FfmpegTo \/ FfmpegFrom
    \/ TxRead \/ TxPutResume \/ RxFeed
    \/ TxCancelled \/ RxCancelled \/ TxStopped \/ RxStopped
    \/ StopResampling \/ StopResamplingStep
    \/ ListenerCreate \/ PeerConnect \/ PeerSendUuid \/ ListenAccept
    \/ ListenGotUuid \/ ListenLoopEnds \/ Accept \/ ListenerClose
    \/ On \/ OnRunning
    \/ ClearSendCall \/ ClearSendStep \/ ClearSendReturn
    \/ ClearRecvCall \/ ClearRecvStep \/ ClearRecvReturn
    \/ DrainCall \/ DrainWake \/ DrainReturn
    \/ WritersCall \/ WritersResume
    \/ FramePeriod \/ PbxSendOtherUuid \/ SetResamplingAgain
    \/ AppWriteStageGone \/ AppReadStageGone
    \/ ListenerCreateAgain

Spec == Init /\ [][Next]_vars

(***************************************************************************)
(* Specifications of parts of the system.  SpecWire is the receive loop,   *)
(* with a reader, on a byte stream that the network splits at any place.   *)
(* In the others the network hands the loop one frame per read, and each   *)
(* leaves out the tasks that do not touch the state it is about: SpecRx is *)
(* the receive path with a reader, SpecTx the transmit path with a writer, *)
(* SpecRs the transmit path through the converter, SpecLife the end of a   *)
(* session with hangup() and close(), FairHang hangup() on a running loop, *)
(* SpecStop close() with the converters running, SpecApp read() and        *)
(* write() on a session that may have ended, SpecListen and FairListen the *)
(* listener, SpecOn the registration of callbacks, SpecEv the dispatch of  *)
(* control frames, SpecQ and SpecDrain the clearing and draining of the    *)
(* queues, SpecWriters two concurrent writers, SpecStage the resampling    *)
(* stage stopped mid-session, SpecSets and SpecOverlap repeated starts of  *)
(* the stage and calls that overlap with its stopping, SpecUuid a peer     *)
(* that sends two identifiers, SpecSingleton repeated create() calls of    *)
(* the listener; FairRead, FairJoin and FairCadence are the fair           *)
(* specifications of read(), drain_send_queue() and clear_receive_queue(). *)
(***************************************************************************)
NextWire ==
    \/ PbxSend \/ PbxClose
    \/ LoopRecv \/ LoopRecvEnd \/ LoopReply \/ LoopHangup \/ LoopClose
    \/ AppRead \/ AppReadResume

SpecWire == Init /\ [][NextWire]_vars

NextRx ==
    \/ PbxSend \/ PbxClose
    \/ LoopRecvFrame \/ LoopRecvEnd \/ LoopReply \/ LoopHangup \/ LoopClose
    \/ AppRead \/ AppReadResume

SpecRx == Init /\ [][NextRx]_vars

NextTx ==
    \/ PbxSendAudio \/ PbxClose \/ PbxReset
    \/ LoopRecvFrame \/ LoopRecvEnd \/ LoopReply \/ LoopHangup \/ LoopClose
    \/ AppWrite \/ AppWriteResume

SpecTx == Init /\ [][NextTx]_vars

NextRs ==
    \/ PbxSendAudio \/ PbxClose
    \/ LoopRecvFrame \/ LoopRecvEnd \/ LoopReply \/ LoopHangup \/ LoopClose
    \/ AppWrite \/ AppWriteResume
    \/ SetResampling \/ TxSpawned \/ FfmpegTo \/ TxRead \/ TxPutResume

SpecRs == Init /\ [][NextRs]_vars

NextLife ==
    \/ PbxSendAudio \/ PbxClose \/ PbxReset
    \/ LoopRecvFrame \/ LoopRecvEnd \/ LoopReply \/ LoopHangup \/ LoopClose
    \/ LoopCancelled
    \/ AppHangup \/ AppHangupSend
    \/ AppClose \/ AppCloseReturn

SpecLife == Init /\ [][NextLife]_vars

\* hangup() against a running loop and a PBX that stays up
NextHang ==
    \/ PbxSendAudio \/ PbxClose
    \/ LoopRecvFrame \/ LoopRecvEnd \/ LoopReply \/ LoopHangup \/ LoopClose
    \/ AppHangup \/ AppHangupSend

\* the event loop runs every task that is ready: a step of the receive loop
\* or of a suspended call that stays possible is taken.  The PBX owes nothing.
FairHang ==
    /\ Init /\ [][NextHang]_vars
    /\ WF_vars(LoopRecvFrame) /\ WF_vars(LoopRecvEnd) /\ WF_vars(LoopReply)
    /\ WF_vars(LoopHangup) /\ WF_vars(LoopClose) /\ WF_vars(AppHangupSend)

\* close() on a session with a resampling stage
NextStop ==
    \/ PbxSendAudio \/ PbxClose
    \/ LoopRecvFrame \/ LoopRecvEnd \/ LoopReply \/ LoopHangup \/ LoopClose
    \/ LoopCancelled
    \/ SetResampling \/ TxSpawned \/ RxSpawned \/ RxFeed \/ FfmpegFrom
    \/ TxCancelled \/ RxCancelled \/ TxStopped \/ RxStopped
    \/ AppClose \/ AppCloseStep \/ AppCloseReturn

SpecStop == Init /\ [][NextStop]_vars

\* the resampling stage started and stopped while audio flows into it from
\* both sides
NextStage ==
    \/ PbxSendAudio \/ LoopRecvFrame \/ LoopReply
    \/ AppWrite
    \/ SetResampling \/ TxSpawned \/ RxSpawned
    \/ FfmpegTo \/ FfmpegFrom \/ TxRead \/ TxPutResume \/ RxFeed
    \/ StopResampling \/ StopResamplingStep
    \/ TxCancelled \/ RxCancelled \/ TxStopped \/ RxStopped

SpecStage == Init /\ [][NextStage]_vars

\* read() against a connection that the PBX or close() brings to an end;
\* the event loop runs every task that is ready, the PBX and the
\* application owe nothing
NextRead ==
    \/ PbxSendAudio \/ PbxClose
    \/ LoopRecvFrame \/ LoopRecvEnd \/ LoopReply \/ LoopHangup \/ LoopClose
    \/ LoopCancelled
    \/ AppRead \/ AppReadResume
    \/ AppClose \/ AppCloseReturn

FairRead ==
    /\ Init /\ [][NextRead]_vars
    /\ WF_vars(LoopRecvFrame) /\ WF_vars(LoopRecvEnd) /\ WF_vars(LoopReply)
    /\ WF_vars(LoopHangup) /\ WF_vars(LoopClose) /\ WF_vars(LoopCancelled)
    /\ WF_vars(AppReadResume) /\ WF_vars(AppCloseReturn)

\* drain_send_queue() against a writer and a connection that the PBX brings
\* to an end; every task that is ready is run
NextJoin ==
    \/ PbxSendAudio \/ PbxClose
    \/ LoopRecvFrame \/ LoopRecvEnd \/ LoopReply \/ LoopHangup \/ LoopClose
    \/ AppWrite \/ AppWriteResume
    \/ DrainCall \/ DrainWake \/ DrainReturn

FairJoin ==
    /\ Init /\ [][NextJoin]_vars
    /\ WF_vars(LoopRecvFrame) /\ WF_vars(LoopRecvEnd) /\ WF_vars(LoopReply)
    /\ WF_vars(LoopHangup) /\ WF_vars(LoopClose) /\ WF_vars(AppWriteResume)
    /\ WF_vars(DrainWake) /\ WF_vars(DrainReturn)

\* clear_receive_queue() during a call whose audio keeps arriving.  The
\* timeout of its get() expires only if rx_q stays empty for 0.2 s, ten
\* frame periods: its return is owed only while it stays possible.
NextCadence ==
    \/ PbxSendAudio \/ LoopRecvFrame \/ LoopReply \/ FramePeriod
    \/ ClearRecvCall \/ ClearRecvStep \/ ClearRecvReturn

FairCadence ==
    /\ Init /\ [][NextCadence]_vars
    /\ WF_vars(LoopRecvFrame) /\ WF_vars(LoopReply)
    /\ WF_vars(ClearRecvStep) /\ WF_vars(ClearRecvReturn)

\* frames of every type from a peer that may send a second identifier
NextUuid ==
    \/ PbxSend \/ PbxSendOtherUuid
    \/ LoopRecvFrame \/ LoopReply

SpecUuid == Init /\ [][NextUuid]_vars

\* set_resampling() and stop_resampling() called in any order during a call
NextSets ==
    \/ PbxSendAudio \/ LoopRecvFrame \/ LoopReply
    \/ SetResampling \/ SetResamplingAgain \/ TxSpawned \/ RxSpawned
    \/ StopResampling \/ StopResamplingStep
    \/ TxCancelled \/ RxCancelled \/ TxStopped \/ RxStopped

SpecSets == Init /\ [][NextSets]_vars

\* read() and write() called while the stage is started and stopped
NextOverlap ==
    \/ SetResampling \/ TxSpawned \/ RxSpawned
    \/ StopResampling \/ StopResamplingStep
    \/ TxCancelled \/ RxCancelled \/ TxStopped \/ RxStopped
    \/ AppWrite \/ AppWriteStageGone
    \/ AppRead \/ AppReadStageGone

SpecOverlap == Init /\ [][NextOverlap]_vars

\* the application reading and writing while the connection comes to an end
NextApp ==
    \/ PbxSendAudio \/ PbxClose \/ PbxReset
    \/ LoopRecvFrame \/ LoopRecvEnd \/ LoopReply \/ LoopHangup \/ LoopClose
    \/ AppRead \/ AppReadResume \/ AppWrite \/ AppWriteResume
    \/ AppReadRaises \/ AppWriteRaises

SpecApp == Init /\ [][NextApp]_vars

\* the listener, next to a session that is exchanging audio
NextListen ==
    \/ ListenerCreate \/ PeerConnect \/ PeerSendUuid \/ ListenAccept
    \/ ListenLoopEnds \/ Accept \/ ListenerClose
    \/ PbxSendAudio \/ LoopRecvFrame \/ LoopReply

SpecListen == Init /\ [][NextListen]_vars

\* the event loop runs the listen loop and a polling accept() when they can
\* go on; peers and the application owe nothing
FairListen ==
    /\ SpecListen
    /\ WF_vars(ListenAccept) /\ WF_vars(Accept)

\* the listener with create() called more than once
NextSingleton == NextListen \/ ListenerCreateAgain

SpecSingleton == Init /\ [][NextSingleton]_vars

\* the registration of callbacks
NextOn == On
SpecOn == Init /\ [][NextOn]_vars

\* frames of every type arriving at a session that has callbacks
NextEv ==
    \/ OnRunning
    \/ PbxSend
    \/ LoopRecvFrame \/ LoopReply

SpecEv == Init /\ [][NextEv]_vars

\* the receive loop next to every task that uses its queues
NextQ ==
    \/ PbxSendAudio
    \/ LoopRecvFrame \/ LoopReply
    \/ AppRead \/ AppReadResume
    \/ AppWrite \/ AppWriteResume
    \/ ClearSendCall \/ ClearSendStep \/ ClearSendReturn
    \/ ClearRecvCall \/ ClearRecvStep \/ ClearRecvReturn

SpecQ == Init /\ [][NextQ]_vars

\* drain_send_queue() next to the loop, a writer and clear_send_queue(),
\* on a connection that may end
NextDrain ==
    \/ PbxSendAudio \/ PbxClose \/ PbxReset
    \/ LoopRecvFrame \/ LoopRecvEnd \/ LoopReply \/ LoopHangup \/ LoopClose
    \/ AppWrite \/ AppWriteResume
    \/ ClearSendCall \/ ClearSendStep \/ ClearSendReturn
    \/ DrainCall \/ DrainWake \/ DrainReturn

SpecDrain == Init /\ [][NextDrain]_vars

\* two writers and the loop sending what they queue
NextWriters ==
    \/ PbxSendAudio
    \/ LoopRecvFrame \/ LoopReply
    \/ WritersCall \/ WritersResume

SpecWriters == Init /\ [][NextWriters]_vars

(***************************************************************************)
(* Properties.                                                             *)
(***************************************************************************)
IsPrefix(a, b) == Len(a) <= Len(b) /\ a = SubSeq(b, 1, Len(a))
Last(s) == s[Len(s)]
Payload(data) == SubSeq(data, 4, Len(data))
IsAudioRec(r) == r.data[1] = T_audio
\* the AUDIO frames the session passed to sock_sendall, in order
AudioRecs == SelectSeq(sock_out, IsAudioRec)
NotSilence(r) == Payload(r.data) # Zeros(FrameLen)
\* the payloads of those that are not silence
SentChunks == [i \in 1..Len(SelectSeq(AudioRecs, NotSilence)) |->
                  Payload(SelectSeq(AudioRecs, NotSilence)[i].data)]

\* C1: with no resampling stage and write() calls made one at a time, the
\* chunks put on tx_q, in order, followed by the carried remainder are all
\* the bytes written (while a write waits for room in tx_q: followed by the
\* bytes it still holds); every chunk put is exactly one frame long and the
\* remainder is shorter than a frame.
C1_WriteChunks ==
    tx_task = "none" =>
       /\ \A i \in 1..Len(put_log) : Len(put_log[i]) = FrameLen
       /\ Len(tx_extra_data) <= FrameLen - 1
       /\ wr.st = "idle" =>
             Flatten(put_log) \o tx_extra_data = Pattern(0, written)
       /\ wr.st = "put" =>
             Flatten(put_log) \o wr.rest = Pattern(0, written)

\* two writes: the second writes a frame and a half onto a carried half frame
C1_Witness ==
    /\ wr.st = "idle"
    /\ calls.w = 2
    /\ written = 2 * FrameLen + 1
    /\ Len(put_log) = 2
    /\ Len(tx_extra_data) = 1

\* C2: with no resampling stage and one reader, the payloads read() returned
\* are a subsequence, in order, of the AUDIO payloads the PBX sent.
C2_ReadsWhatPbxSent ==
    rx_task = "none" => IsSubseq(read_log, PbxAudio)

\* C3: rx_q never holds more than its capacity, and an AUDIO frame that
\* arrives when it is full removes exactly the oldest payload and is
\* appended.
C3_DropOldest ==
    [][/\ Len(rx_q') <= QueueCap
       /\ (/\ Len(proc_log') = Len(proc_log) + 1
           /\ Last(proc_log')[1] = T_audio
           /\ Len(rx_q) = QueueCap)
          => rx_q' = Append(Tail(rx_q), Last(proc_log')[2])]_vars

\* the queue was full when the third frame arrived: the first is gone
C3_Witness ==
    /\ Len(rx_q) = QueueCap
    /\ evicted = <<AudioPayload(1)>>
    /\ Last(rx_q) = AudioPayload(QueueCap + 1)
    /\ read_log = <<>>

\* C4: the loop passes one AUDIO frame to sock_sendall for every AUDIO frame
\* it processes, before it reads again, and none otherwise; the frame is
\* the head of tx_q when the AUDIO frame arrives, or silence when tx_q is
\* empty then.  (A write is the sock_sendall call, whether or not the
\* connection still takes the bytes.)
C4_State ==
    LET nin == Len(SelectSeq(proc_log, IsAudio))
        nout == Len(AudioRecs)
        pending == IF reply.fromq THEN <<Payload(reply.data)>> ELSE <<>> IN
    /\ nout <= nin
    /\ nin <= nout + 1
    /\ pc = "recv" => nin = nout
    /\ nin = nout + 1 => (pc = "reply" <=> reply # NoReply)
    /\ (tx_task = "none" /\ pc \in {"recv", "reply"}) =>
          SentChunks \o pending \o tx_q = put_log

C4_Step ==
    /\ (Len(proc_log') = Len(proc_log) + 1 /\ Last(proc_log')[1] = T_audio) =>
          /\ pc' = "reply"
          /\ reply'.data = IF tx_q = <<>> THEN SilenceFrame
                           ELSE AudioFrame(Head(tx_q))
          /\ tx_q' = IF tx_q = <<>> THEN tx_q ELSE Tail(tx_q)
    /\ Len(AudioRecs') # Len(AudioRecs) =>
          /\ pc = "reply"
          /\ sock_out' = Append(sock_out, Last(sock_out'))
          /\ Last(sock_out').data = reply.data

C4_OneReplyPerFrame == [](C4_State) /\ [][C4_Step]_vars

\* a frame answered with silence, then one answered with a queued chunk
C4_Witness ==
    /\ pc = "recv"
    /\ Len(AudioRecs) = 2
    /\ AudioRecs[1].data = SilenceFrame
    /\ AudioRecs[2].data = AudioFrame(Pattern(0, FrameLen))
    /\ AudioRecs[2].res = "ok"

\* C5: every AUDIO frame passed to sock_sendall has a payload of exactly one
\* frame and a length field saying so, with or without a resampling stage
\* and whatever the sizes written.
C5_FrameSize ==
    /\ \A i \in 1..Len(sock_out) :
          sock_out[i].data[1] = T_audio =>
             /\ Len(Payload(sock_out[i].data)) = FrameLen
             /\ FromBytes2(SubSeq(sock_out[i].data, 2, 3)) = FrameLen
    /\ \A i \in 1..Len(tx_q) : Len(tx_q[i]) = FrameLen

\* audio written at twice the rate went through the converter and out
C5_Witness ==
    /\ ratio = 2
    /\ ToProc
    /\ Len(put_log) >= 1
    /\ put_log[1] = Decimate(Pattern(0, 2 * FrameLen), 2)
    /\ \E i \in 1..Len(sock_out) : sock_out[i].data = AudioFrame(put_log[1])

\* C6: the frames the receive loop processes are, in order, the frames the
\* PBX sent, however the byte stream is cut into reads.
C6_FramesAsSent == IsPrefix(proc_log, pbx_log)

\* C7: once the loop has read a HANGUP frame it has left its receiving
\* state, and it processes no frame after it.
C7_HangupStops ==
    \A i \in 1..Len(proc_log) :
       proc_log[i][1] = T_hangup => (i = Len(proc_log) /\ pc # "recv")

\* C8: when the receive loop's task has ended, the socket is closed and
\* connected is false.
C8_ExitCloses == pc \in Terminal => (~sock_open /\ ~connected)

IsHangupWritten(r) == r.data = HangupBytes /\ r.res = "ok"
\* C9: the hangup sequence is written to the socket at most once.
C9_HangupOnce == Len(SelectSeq(sock_out, IsHangupWritten)) <= 1

C11_CloseCloses ==
    (calls.c > 0 /\ cl = "idle") =>
       (pc \in Terminal /\ ~sock_open /\ ~connected)

\* C12: once a close() call has returned, neither resampling task is still
\* running.
C12_CloseStopsResampling ==
    (calls.c > 0 /\ cl = "idle") => (~Live(tx_task) /\ ~Live(rx_task))

\* C13: a read() or write() invoked while connected is false raises
\* InvalidStateException in the same step: it does not suspend, no byte is
\* accepted or returned, and both queues, the carried remainder and the
\* other calls in progress stay as they are.
C13_InvalidState ==
    [][/\ calls'.x # calls.x =>
             /\ ~connected
             /\ calls'.x = Append(calls.x, <<Last(calls'.x)[1], InvalidStateException>>)
             /\ UNCHANGED <<rx_q, tx_q, tx_unfinished, tx_extra_data, rd, wr,
                            written, read_log, put_log>>
       /\ ~connected =>
             /\ rd = "idle" => (rd' = "idle" /\ read_log' = read_log)
             /\ wr.st = "idle" => (wr'.st = "idle" /\ put_log' = put_log)
             /\ written' = written]_vars

\* the loop has ended with a payload queued and a remainder carried: read()
\* and then write() raised
C13_Witness ==
    /\ ~connected
    /\ rx_q # <<>>
    /\ tx_extra_data # <<>>
    /\ calls.x = << <<"read", InvalidStateException>>,
                    <<"write", InvalidStateException>> >>

IsFailedSend(r) == r.res # "ok"
\* C14: whatever happens to the connection, the only exception read() and
\* write() raise is InvalidStateException, and only while connected is
\* false; a step in which the peer goes away or a send fails leaves the
\* calls in progress and what was raised so far as they are.
C14_NoTransportRaise ==
    [][/\ calls'.x # calls.x =>
             /\ ~connected
             /\ Last(calls'.x)[2] = InvalidStateException
       /\ (peer' # peer \/
           Len(SelectSeq(sock_out', IsFailedSend)) #
              Len(SelectSeq(sock_out, IsFailedSend))) =>
             UNCHANGED <<rd, wr, calls, read_log, written>>]_vars

\* the connection was reset and the loop's sends failed: a read() is still
\* waiting, every write() was accepted, nothing was raised
C14_Witness ==
    /\ peer = "reset"
    /\ pc \in Terminal
    /\ \E i \in 1..Len(sock_out) : IsFailedSend(sock_out[i])
    /\ rd = "get"
    /\ calls.w = MaxWrites
    /\ wr.st = "idle"
    /\ calls.x = <<>>

C16_AcceptedHasSession ==
    /\ \A c \in Conns : csock[c] # "orphan"
    /\ listener = "listening" => l_loop # "ended"

\* C17: every connection whose peer has sent a UUID frame is eventually in
\* the registry under that id, unless the listener is closed first.
C17_UuidRegistered ==
    \A c \in Conns :
       (csock[c] # "none" /\ cuuid[c] # "")
          ~> (<<cuuid[c], c>> \in connections \/ listener = "closed")

\* C18: a listener created with no port given is listening, and its port
\* attribute is the port the OS assigned.
C18_EphemeralPort ==
    bind_port = 0 => (listener = "listening" /\ port = EphemeralPort)

\* C19: close() of the listener leaves the listening socket closed for
\* good; after it no connection is queued on it or taken from it; and the
\* step itself changes nothing of a session, of the registry or of the
\* connections already made.
C19_ListenerClose ==
    [][/\ listener = "closed" =>
             /\ listener' = "closed"
             /\ backlog' = backlog
             /\ csock' = csock
             /\ connections' = connections
       /\ (listener = "listening" /\ listener' = "closed") =>
             UNCHANGED <<sockvars, sessvars, loopvars, appvars, rsvars,
                         connections, csock, cuuid, acc, backlog, port>>]_vars

\* the listener was closed with a connection waiting to be accepted, next
\* to a session that has audio queued: the connection is never taken and
\* the session goes on
C19_Witness ==
    /\ listener = "closed"
    /\ backlog # <<>>
    /\ connected
    /\ sock_open
    /\ Len(rx_q) = QueueCap
    /\ Len(sock_out) >= QueueCap

\* the on() calls made so far for event e, as positions in on_log
OnCallsFor(e) == {i \in 1..Len(on_log) : on_log[i].event = e}
LatestOn(e) == CHOOSE i \in OnCallsFor(e) : \A j \in OnCallsFor(e) : j <= i

C23_ShortReadIsAudio ==
    [][(/\ Len(proc_log') = Len(proc_log) + 1
        /\ Len(net_in) - Len(net_in') < 3)
       => /\ Last(proc_log')[2] = Zeros(FrameLen)
          /\ rx_q' = RxAdmit(rx_q, Zeros(FrameLen))
          /\ pc' = "reply"
          /\ connected']_vars

\* the step is the processing of one more frame, of a type in `types`
Processes(types) ==
    /\ Len(proc_log') = Len(proc_log) + 1
    /\ Last(proc_log')[1] \in types

\* C29: processing a DTMF, ERROR or UUID frame leaves rx_q and tx_q as they
\* were and passes nothing to the socket, neither in that step nor as a
\* reply left to write; a DTMF frame creates one task of the callback
\* registered for dtmf, with the digit the PBX sent, and changes nothing at
\* all in the session when none is registered.
C29_ControlFrames ==
    [][/\ Processes({T_dtmf, T_error, T_uuid}) =>
            /\ rx_q' = rx_q
            /\ tx_q' = tx_q
            /\ tx_unfinished' = tx_unfinished
            /\ sock_out' = sock_out
            /\ pc' = "recv"
            /\ reply' = NoReply
       /\ Processes({T_dtmf}) =>
            IF "dtmf" \in DOMAIN _event_callbacks
            THEN fired' = Append(fired,
                     [event |-> "dtmf", callback |-> _event_callbacks["dtmf"],
                      payload |-> pbx_log[Len(proc_log')][2]])
            ELSE UNCHANGED <<peer, sock_open, sock_out, pbx_log, sessvars, pc,
                             reply, exc, cancel_req, evicted, appvars, rsvars,
                             lsvars, cbvars, fired, qvars, w2vars, srvars, auxvars>>]_vars

\* a digit arrived before a callback was registered and another one after,
\* with received audio waiting in rx_q: one task was created
C29_Witness ==
    /\ Len(proc_log) = 3
    /\ proc_log[1][1] = T_dtmf
    /\ proc_log[2][1] = T_audio
    /\ proc_log[3][1] = T_dtmf
    /\ rx_q = <<AudioPayload(1)>>
    /\ fired = << [event |-> "dtmf", callback |-> "f", payload |-> <<53>>] >>

\* the UUID frames processed so far, as positions in proc_log
UuidFrames == {i \in 1..Len(proc_log) : proc_log[i][1] = T_uuid}
FirstUuidFrame == CHOOSE i \in UuidFrames : \A j \in UuidFrames : i <= j

Writer == IF hg = "hangup" /\ hg' = "idle" THEN "app" ELSE "loop"
\* the task is inside async with self._lock, at its sock_sendall
InSendall(t) ==
    /\ lock = t
    /\ IF t = "app" THEN hg = "hangup" ELSE pc \in {"reply", "fin_hangup"}

HangupWritten ==
    \E i \in 1..Len(sock_out) :
       sock_out[i].data = HangupBytes /\ sock_out[i].res = "ok"

\* C28: the socket of a session is closed only after the three hangup bytes
\* were written to it, on every path to conn.close(): the peer closing, a
\* read error, and the cancellation by close().
C28_HangupBeforeClose ==
    /\ [](~sock_open => HangupWritten)
    /\ [][(sock_open /\ ~sock_open') => (HangupWritten /\ hangup_sent)]_vars

\* close() cancelled the loop, which sent the hangup and closed the socket
C28_Witness ==
    /\ ~sock_open
    /\ exc = "cancel"
    /\ pc = "cancelled"
    /\ calls.h = 0
    /\ Last(sock_out).data = HangupBytes

\* C26: the receive loop is never suspended in put() on rx_q or in get() on
\* tx_q, whatever read(), write() and the two clear calls do to the queues
\* in between: the step that processes an AUDIO frame takes the loop
\* straight to the write of the reply, with the payload on rx_q.
C26_LoopNeverWaitsOnQueues ==
    /\ [](pc \notin {"rx_put", "tx_get"})
    /\ [][Processes({T_audio}) =>
            /\ pc' = "reply"
            /\ reply' # NoReply
            /\ rx_q' # <<>>
            /\ Last(rx_q') = Last(proc_log')[2]]_vars

\* an AUDIO frame was processed with rx_q full and a write() waiting for
\* room in a full tx_q, while both queues were being cleared
C26_Witness ==
    /\ pc = "reply"
    /\ evicted # <<>>
    /\ Len(rx_q) = QueueCap
    /\ wr.st = "put"
    /\ clr["tx"].st = "run"
    /\ clr["rx"].st = "run"

\* the step is the return of clear_send_queue ("tx") or
\* clear_receive_queue ("rx")
ClearReturns(q) == clr[q].st = "run" /\ clr'[q].st = "idle"
\* the chunk the loop took from tx_q for the reply it is about to write
PendingReply == IF reply.fromq THEN {Payload(reply.data)} ELSE {}
Elems(s) == {s[i] : i \in 1..Len(s)}

\* C22: when clear_send_queue() returns tx_q is empty, and when
\* clear_receive_queue() returns rx_q is empty; a chunk removed by
\* clear_send_queue() is never passed to the socket, nor held by the loop
\* for a reply, and a payload removed by clear_receive_queue() is never
\* returned by read().
C22_ClearDiscards ==
    /\ [](/\ Elems(cleared["tx"]) \cap (Elems(SentChunks) \cup PendingReply) = {}
          /\ Elems(cleared["rx"]) \cap Elems(read_log) = {})
    /\ [][/\ ClearReturns("tx") => tx_q' = <<>>
          /\ ClearReturns("rx") => rx_q' = <<>>]_vars

\* both calls returned after removing items, while the loop sent another
\* chunk and read() returned another payload
C22_Witness ==
    /\ clr["tx"] = [st |-> "idle", n |-> 1]
    /\ clr["rx"] = [st |-> "idle", n |-> 1]
    /\ cleared["tx"] # <<>>
    /\ cleared["rx"] # <<>>
    /\ SentChunks # <<>>
    /\ read_log # <<>>

\* the reply step of the loop went through for the chunk: sock_sendall was
\* called with it and the loop went on (it returned, or raised the
\* ConnectionResetError that the loop suppresses)
IsChunkDone(r) == IsAudioRec(r) /\ NotSilence(r) /\ r.res \in {"ok", "reset"}
\* the chunks consumed so far by the reply step or by clear_send_queue()
NumDone == Len(SelectSeq(sock_out, IsChunkDone)) + Len(cleared["tx"])

C24_WritesInOrder ==
    /\ IsPrefix(Flatten(SentChunks), SubmittedBytes)
    /\ IsPrefix(Flatten(put_log), SubmittedBytes)
    /\ (\A t \in Writers : wrs[t].st = "idle") =>
          Flatten(put_log) \o tx_extra_data = SubmittedBytes

(***************************************************************************)
(* C25: stopping the resampling stage mid-session loses no audio: once     *)
(* stop_resampling() has returned, every byte the stage held when it was   *)
(* called has been queued for the PBX (or is carried in _tx_extra_data),   *)
(* respectively has been returned by read().                               *)
(***************************************************************************)
C25_StopLosesNothing ==
    \A i \in 1..Len(held) :
        sr.st = "idle" =>
            /\ IsSubseq(held[i].to, Flatten(put_log) \o tx_extra_data)
            /\ IsSubseq(held[i].from, Flatten(read_log))


(***************************************************************************)
(* C31: when drain_send_queue() returns on a connected session and no      *)
(* write() is in progress, every byte passed to write() so far has been    *)
(* passed to the socket (or was removed by clear_send_queue()), the        *)
(* remainder shorter than a frame included.                                *)
(***************************************************************************)
C31_DrainFlushesAll ==
    [][(/\ Len(dr_log') > Len(dr_log)
        /\ Last(dr_log').connected
        /\ wr.st = "idle") =>
           Len(Flatten(SentChunks)) + Len(Flatten(cleared["tx"])) = written]_vars


(***************************************************************************)
(* C32: once clear_send_queue() has returned, no byte of a write() that    *)
(* had completed by then is put on tx_q for transmission: the bytes of     *)
(* write() are numbered 1, 2, ... in the order written, so every chunk put *)
(* afterwards holds only bytes numbered above the mark.                    *)
(***************************************************************************)
C32_ClearedNeverSent ==
    [][clear_mark >= 0 =>
          \A i \in (Len(put_log) + 1)..Len(put_log') :
              \A j \in 1..Len(put_log'[i]) : put_log'[i][j] > clear_mark]_vars


(***************************************************************************)
(* C33: a read() that is suspended on the empty rx_q of a session that is  *)
(* no longer connected eventually returns or raises.                       *)
(***************************************************************************)
C33_ReadEnds == (rd = "get" /\ ~connected) ~> (rd = "idle")


(***************************************************************************)
(* C34: a drain_send_queue() call that is waiting in join() when the       *)
(* receive loop has ended, with chunks left on tx_q, eventually returns.   *)
(***************************************************************************)
C34_DrainEnds == (dr.st = "join" /\ pc \in Terminal /\ tx_q # <<>>) ~> (dr.st = "idle")


(***************************************************************************)
(* C35: clear_receive_queue() eventually returns, also while the PBX keeps *)
(* sending audio frames.                                                   *)
(***************************************************************************)
C35_ClearEnds == (clr["rx"].st = "run") ~> (clr["rx"].st = "idle")


(***************************************************************************)
(* C36: no AUDIO frame is passed to the socket after the hangup sequence   *)
(* has been written to it.                                                 *)
(***************************************************************************)
C36_NoAudioAfterHangup ==
    \A i \in 1..Len(sock_out) : \A j \in (i + 1)..Len(sock_out) :
        IsHangupWritten(sock_out[i]) => ~IsAudioRec(sock_out[j])


(***************************************************************************)
(* C37: the stream id of a session, once set, never changes, whatever      *)
(* frames the peer sends afterwards.                                       *)
(***************************************************************************)
C37_StreamIdFixed == [][uuid # <<>> => uuid' = uuid]_vars


(***************************************************************************)
(* C38: at any time at most one resampling task, with its converter,       *)
(* exists per direction.                                                   *)
(***************************************************************************)
NumTasks(task, left) == (IF Live(task) THEN 1 ELSE 0) + left
C38_OneTaskPerDirection ==
    /\ NumTasks(tx_task, orphans.tx) <= 1
    /\ NumTasks(rx_task, orphans.rx) <= 1


(***************************************************************************)
(* C39: whatever read() and write() overlap with, the starting or the      *)
(* stopping of the resampling stage, the only exception they raise is      *)
(* InvalidStateException.                                                  *)
(***************************************************************************)
C39_OverlapIsSafe ==
    \A i \in 1..Len(calls.x) : calls.x[i][2] = InvalidStateException


(***************************************************************************)
(* C40: AudiosocketAsync.create() never returns an instance whose          *)
(* __create__ raised.                                                      *)
(***************************************************************************)
C40_CreateReturnsReady ==
    \A i \in 1..Len(create_log) : create_log[i] # "failed"

=============================================================================
